---- MODULE Spec2Model ----
(***************************************************************************)
(* Model of the hotel-rating aggregator: the Consolidator                  *)
(* (src/consolidador.py) over a results directory, its per-hotel           *)
(* normalisation and its Booking hotel-id synthesis; the site adapters     *)
(* (src/sites), the Orchestrator (src/main.py) and the job API             *)
(* (src/api.py).                                                           *)
(*                                                                         *)
(* Conventions                                                             *)
(*  - A Python str is a tuple of characters; the non-ASCII characters are  *)
(*    written as two-letter tokens: "a~" (a tilde), "A~", "c," (c cedilla),*)
(*    "C,", "e'" (e acute), "E'".                                          *)
(*  - A JSON/Python value is a tagged record: IntV(n), FloatV(h), Str(c),    *)
(*    Null, List(l).  A float is held in hundredths (4.5 is FloatV(450)),   *)
(*    so float() and round(x, 2) are integer arithmetic in the model.      *)
(*  - A Python dict is a function whose DOMAIN is its key set.             *)
(*  - Text that the code only copies (site_configs, the version) is a     *)
(*    TLA+ string, written in ASCII.                                       *)
(*  - A call that can raise returns [ok |-> TRUE, v |-> value] or          *)
(*    [ok |-> FALSE, err |-> exception name].                              *)
(***************************************************************************)
EXTENDS Integers, Sequences, FiniteSets, TLC

VARIABLES
    nPc, nSite, nRaw, nOut,        \* one call of _normalize_hotel_data
    mCall,                         \* the last method called on its own, with what it returned
    files, now, nextCtime, runs,   \* results directory, clock, calls of generate_consolidated_json
    sCall, sResults,               \* one call of an adapter's scrape_multiple_hotels
    rng, hashSeed, fallbacks,      \* the random module, the process's str hash seed, fallbacks made
    configured, orchRuns,          \* sites with hotels in config.env, runs of main()
    apiConfig, jobs_storage, tasks, response   \* the API: settings, job table, background tasks, last answer

normVars == <<nPc, nSite, nRaw, nOut, mCall>>
dirVars == <<files, now, nextCtime, runs>>
scrapeVars == <<sCall, sResults, rng, hashSeed, fallbacks>>
orchVars == <<configured, orchRuns>>
apiVars == <<apiConfig, jobs_storage, tasks, response>>
restVars == <<scrapeVars, orchVars, apiVars>>
vars == <<normVars, dirVars, scrapeVars, orchVars, apiVars>>

----------------------------------------------------------------------------
(* JSON values and Python coercions *)

IntV(n) == [t |-> "int", n |-> n]
FloatV(h) == [t |-> "float", h |-> h]
Str(c) == [t |-> "str", c |-> c]
Null == [t |-> "null"]
List(l) == [t |-> "list", l |-> l]

Ok(v) == [ok |-> TRUE, v |-> v]
Raise(e) == [ok |-> FALSE, err |-> e]

EmptyDict == [k \in {} |-> Null]

\* dict.get(key, default)
Get(d, k, default) == IF k \in DOMAIN d THEN d[k] ELSE default

\* dict.update(u)
Update(d, u) == [k \in DOMAIN d \cup DOMAIN u |-> IF k \in DOMAIN u THEN u[k] ELSE d[k]]

Digits == <<"0", "1", "2", "3", "4", "5", "6", "7", "8", "9">>

IsDigit(c) == \E i \in 1..10 : Digits[i] = c

DigitVal(c) == (CHOOSE i \in 1..10 : Digits[i] = c) - 1

AllDigits(s) == \A i \in 1..Len(s) : IsDigit(s[i])

RECURSIVE DigitsValue(_)
DigitsValue(s) ==
    IF s = <<>> THEN 0
    ELSE 10 * DigitsValue(SubSeq(s, 1, Len(s) - 1)) + DigitVal(s[Len(s)])

\* str.strip() for the blank character
RECURSIVE LStrip(_)
LStrip(s) == IF s # <<>> /\ s[1] = " " THEN LStrip(Tail(s)) ELSE s

RECURSIVE RStrip(_)
RStrip(s) == IF s # <<>> /\ s[Len(s)] = " " THEN RStrip(SubSeq(s, 1, Len(s) - 1)) ELSE s

Strip(s) == RStrip(LStrip(s))

HasSign(s) == s # <<>> /\ s[1] \in {"-", "+"}
SignOf(s) == IF s # <<>> /\ s[1] = "-" THEN -1 ELSE 1
Unsigned(s) == IF HasSign(s) THEN Tail(s) ELSE s

DotAt(s) == IF \E i \in 1..Len(s) : s[i] = "."
            THEN CHOOSE i \in 1..Len(s) : s[i] = "." /\ \A j \in 1..(i - 1) : s[j] # "."
            ELSE 0

\* int(str): optional blanks, optional sign, one or more digits
IntOfParts(sign, body) ==
    IF body # <<>> /\ AllDigits(body)
    THEN Ok(IntV(sign * DigitsValue(body)))
    ELSE Raise("ValueError")

ParseIntStr(s) == IntOfParts(SignOf(Strip(s)), Unsigned(Strip(s)))

\* float(str), in hundredths: optional blanks, optional sign, digits with an
\* optional decimal point (at most two decimals occur in the inputs used)
Hundredths(fp) ==
    IF Len(fp) = 0 THEN 0
    ELSE IF Len(fp) = 1 THEN 10 * DigitsValue(fp)
    ELSE DigitsValue(fp)

\* the float of a sign, the digits before the point and the digits after it
FloatOfParts(sign, ip, fp) ==
    IF AllDigits(ip) /\ AllDigits(fp) /\ Len(ip) + Len(fp) >= 1 /\ Len(fp) <= 2
    THEN Ok(FloatV(sign * (100 * DigitsValue(ip) + Hundredths(fp))))
    ELSE Raise("ValueError")

\* the unsigned text split at its first point, at position d (0: no point)
SplitAtDot(sign, body, d) ==
    FloatOfParts(sign,
                 IF d = 0 THEN body ELSE SubSeq(body, 1, d - 1),
                 IF d = 0 THEN <<>> ELSE SubSeq(body, d + 1, Len(body)))

ParseFloatStr(s) ==
    SplitAtDot(SignOf(Strip(s)), Unsigned(Strip(s)), DotAt(Unsigned(Strip(s))))

\* float(x)
PyFloat(x) ==
    IF x.t = "float" THEN Ok(x)
    ELSE IF x.t = "int" THEN Ok(FloatV(100 * x.n))
    ELSE IF x.t = "str" THEN ParseFloatStr(x.c)
    ELSE Raise("TypeError")

\* int(x): a float is truncated towards zero, a str is parsed
PyInt(x) ==
    IF x.t = "int" THEN Ok(x)
    ELSE IF x.t = "float"
         THEN Ok(IntV(IF x.h >= 0 THEN x.h \div 100 ELSE -((-x.h) \div 100)))
    ELSE IF x.t = "str" THEN ParseIntStr(x.c)
    ELSE Raise("TypeError")

----------------------------------------------------------------------------
(* str methods used by _generate_hotel_id *)

UpperChars == <<"A", "B", "C", "D", "E", "F", "G", "H", "I", "J", "K", "L", "M",
                "N", "O", "P", "Q", "R", "S", "T", "U", "V", "W", "X", "Y", "Z",
                "A~", "C,", "E'">>
LowerChars == <<"a", "b", "c", "d", "e", "f", "g", "h", "i", "j", "k", "l", "m",
                "n", "o", "p", "q", "r", "s", "t", "u", "v", "w", "x", "y", "z",
                "a~", "c,", "e'">>

LowerChar(c) ==
    IF \E i \in 1..Len(UpperChars) : UpperChars[i] = c
    THEN LowerChars[CHOOSE i \in 1..Len(UpperChars) : UpperChars[i] = c]
    ELSE c

\* str.lower()
Lower(s) == [i \in 1..Len(s) |-> LowerChar(s[i])]

\* str.replace(old, new): every non-overlapping occurrence, left to right
RECURSIVE Replace(_, _, _)
Replace(s, old, new) ==
    IF Len(s) < Len(old) THEN s
    ELSE IF SubSeq(s, 1, Len(old)) = old
         THEN new \o Replace(SubSeq(s, Len(old) + 1, Len(s)), old, new)
         ELSE <<s[1]>> \o Replace(Tail(s), old, new)

HotelUnderscore == <<"h", "o", "t", "e", "l", "_">>

\* removal of "hotel_" only where the name starts with it, as spec.md section 4.1
\* words the third step of the synthesis
StripLeadingHotel(s) ==
    IF Len(s) >= 6 /\ SubSeq(s, 1, 6) = HotelUnderscore THEN SubSeq(s, 7, Len(s)) ELSE s

GenerateHotelIdChars_Leading(c) ==
    Replace(Replace(StripLeadingHotel(Replace(Lower(c), <<" ">>, <<"_">>)),
                    <<"c,">>, <<"c">>), <<"a~">>, <<"a">>)

\* hotel_name.lower().replace(' ', '_').replace('hotel_', '').replace(c-cedilla, 'c').replace(a-tilde, 'a')
GenerateHotelIdChars(c) ==
    Replace(Replace(Replace(Replace(Lower(c), <<" ">>, <<"_">>), HotelUnderscore, <<>>),
                    <<"c,">>, <<"c">>), <<"a~">>, <<"a">>)

\* _generate_hotel_id(hotel_name); a value that is not a str has no lower()
GenerateHotelId(name) ==
    IF name.t = "str" THEN Ok(Str(GenerateHotelIdChars(name.c)))
    ELSE Raise("AttributeError")

----------------------------------------------------------------------------
(* DataConsolidator._normalize_hotel_data *)

Sites == <<"tripadvisor", "booking", "google", "decolar">>
SiteSet == {Sites[i] : i \in 1..Len(Sites)}

EmptyStr == Str(<<>>)
HtmlParsing == Str(<<"h", "t", "m", "l", "_", "p", "a", "r", "s", "i", "n", "g">>)

NormalizedKeys ==
    {"hotel_id", "hotel_name", "rating", "review_count", "max_rating", "url", "source",
     "data_source", "extraction_timestamp", "site", "additional_info"}

\* the dict literal of lines 64-76
BaseRecord(site) ==
    [hotel_id |-> EmptyStr, hotel_name |-> EmptyStr, rating |-> FloatV(0),
     review_count |-> IntV(0), max_rating |-> FloatV(500), url |-> EmptyStr,
     source |-> EmptyStr, data_source |-> EmptyStr, extraction_timestamp |-> EmptyStr,
     site |-> site, additional_info |-> EmptyDict]

\* the exception of the first entry, in evaluation order, that raises
RECURSIVE FirstRaise(_)
FirstRaise(rs) ==
    IF rs = <<>> THEN Ok(Null)
    ELSE IF ~rs[1].ok THEN rs[1]
    ELSE FirstRaise(Tail(rs))

\* 'review_count': int(hotel_data.get(key, 0))
ReviewCount(hotel_data, key) == PyInt(Get(hotel_data, key, IntV(0)))

\* 'rating': float(hotel_data.get('rating', 0))
Rating(hotel_data) == PyFloat(Get(hotel_data, "rating", IntV(0)))

\* the google entry as a constant, as spec.md section 4.1 words it
GoogleMaxRatingConst(hotel_data) == Ok(FloatV(500))

\* 'max_rating': float(hotel_data.get('max_rating', 5.0)) of the google branch
GoogleMaxRating(hotel_data) == PyFloat(Get(hotel_data, "max_rating", FloatV(500)))

\* 'max_rating': float(hotel_data.get('max_rating', 10.0)) of the booking branch
BookingMaxRating(hotel_data) == PyFloat(Get(hotel_data, "max_rating", FloatV(1000)))

\* the update() argument of each branch, as the results of its entries
SiteEntries(hotel_data, site) ==
    IF site = "tripadvisor" THEN
        [hotel_id |-> Ok(Get(hotel_data, "hotel_id", EmptyStr)),
         hotel_name |-> Ok(Get(hotel_data, "hotel_name", EmptyStr)),
         rating |-> Rating(hotel_data),
         review_count |-> ReviewCount(hotel_data, "review_count"),
         max_rating |-> Ok(FloatV(500)),
         url |-> Ok(Get(hotel_data, "hotel_url", EmptyStr)),
         source |-> Ok(Get(hotel_data, "source", EmptyStr)),
         data_source |-> Ok(Get(hotel_data, "data_source", EmptyStr)),
         extraction_timestamp |-> Ok(Get(hotel_data, "extraction_timestamp", EmptyStr)),
         additional_info |-> Ok([k \in {"reviews"} |-> Get(hotel_data, "reviews", List(<<>>))])]
    ELSE IF site = "booking" THEN
        [hotel_id |-> GenerateHotelId(Get(hotel_data, "hotel_name", EmptyStr)),
         hotel_name |-> Ok(Get(hotel_data, "hotel_name", EmptyStr)),
         rating |-> Rating(hotel_data),
         review_count |-> ReviewCount(hotel_data, "reviews"),
         max_rating |-> BookingMaxRating(hotel_data),
         url |-> Ok(Get(hotel_data, "url", EmptyStr)),
         source |-> Ok(Get(hotel_data, "source", EmptyStr)),
         data_source |-> Ok(HtmlParsing),
         extraction_timestamp |-> Ok(Get(hotel_data, "timestamp", EmptyStr)),
         additional_info |-> Ok(EmptyDict)]
    ELSE IF site = "google" THEN
        [hotel_id |-> Ok(Get(hotel_data, "hotel_id", EmptyStr)),
         hotel_name |-> Ok(Get(hotel_data, "hotel_name", EmptyStr)),
         rating |-> Rating(hotel_data),
         review_count |-> ReviewCount(hotel_data, "review_count"),
         max_rating |-> GoogleMaxRating(hotel_data),
         url |-> Ok(Get(hotel_data, "google_url", EmptyStr)),
         source |-> Ok(Get(hotel_data, "source", EmptyStr)),
         data_source |-> Ok(Get(hotel_data, "data_source", EmptyStr)),
         extraction_timestamp |-> Ok(Get(hotel_data, "extraction_timestamp", EmptyStr)),
         additional_info |-> Ok([k \in {"hotel_search_term"} |->
                                    Get(hotel_data, "hotel_search_term", EmptyStr)])]
    ELSE IF site = "decolar" THEN
        [hotel_id |-> Ok(Get(hotel_data, "hotel_id", EmptyStr)),
         hotel_name |-> Ok(Get(hotel_data, "hotel_name", EmptyStr)),
         rating |-> Rating(hotel_data),
         review_count |-> ReviewCount(hotel_data, "review_count"),
         max_rating |-> Ok(FloatV(1000)),
         url |-> Ok(Get(hotel_data, "hotel_url", EmptyStr)),
         source |-> Ok(Get(hotel_data, "source", EmptyStr)),
         data_source |-> Ok(Get(hotel_data, "data_source", EmptyStr)),
         extraction_timestamp |-> Ok(Get(hotel_data, "extraction_timestamp", EmptyStr)),
         additional_info |-> Ok([k \in {"reviews"} |-> Get(hotel_data, "reviews", List(<<>>))])]
    ELSE EmptyDict

\* the order in which Python evaluates the entries of the dict literal
EntryOrder ==
    <<"hotel_id", "hotel_name", "rating", "review_count", "max_rating", "url", "source",
      "data_source", "extraction_timestamp", "additional_info">>

InOrder(entries) ==
    [i \in 1..(IF DOMAIN entries = {} THEN 0 ELSE Len(EntryOrder)) |-> entries[EntryOrder[i]]]

\* normalized.update({...}) and the return: the first entry that raises ends
\* the call, otherwise the entries replace those of the base record
UpdateAndReturn(site, entries) ==
    IF ~FirstRaise(InOrder(entries)).ok THEN FirstRaise(InOrder(entries))
    ELSE Ok(Update(BaseRecord(site), [k \in DOMAIN entries |-> entries[k].v]))

\* _normalize_hotel_data(hotel_data, site)
NormalizeHotelData(hotel_data, site) == UpdateAndReturn(site, SiteEntries(hotel_data, site))

----------------------------------------------------------------------------
(* The results directory and DataConsolidator.load_site_data *)

Dict(d) == [t |-> "dict", d |-> d]

\* content of a file that json.load rejects
Unparsable == [kind |-> "unparsable"]
\* content of a file that holds the JSON object d
Json(d) == [kind |-> "json", d |-> d]

\* the path {results_dir}/{prefix}_{mid}_{stamp}.json
Path(prefix, mid, stamp) == [prefix |-> prefix, mid |-> mid, stamp |-> stamp]

\* a pattern that matches the files of every prefix
GlobAnyPrefix(fs, site) == {n \in DOMAIN fs : n.mid = "dados"}

\* glob.glob(f"{results_dir}/{site}_dados_*.json")
Glob(fs, site) == {n \in DOMAIN fs : n.prefix = site /\ n.mid = "dados"}

\* max(files, key=os.path.getctime)
LatestFile(fs, names) == CHOOSE n \in names : \A m \in names : fs[m].ctime <= fs[n].ctime

\* json.load(f) inside the try of load_site_data: None on any exception
JsonLoad(content) == IF content.kind = "json" THEN Dict(content.d) ELSE Null

\* a load that goes back to the latest file that parses
LoadLatestParsable(fs, names) ==
    IF {n \in names : fs[n].content.kind = "json"} = {} THEN Null
    ELSE JsonLoad(fs[LatestFile(fs, {n \in names : fs[n].content.kind = "json"})].content)

\* the part of load_site_data after the glob
LoadLatest(fs, names) ==
    IF names = {} THEN Null ELSE JsonLoad(fs[LatestFile(fs, names)].content)

\* load_site_data(site, results_dir)
LoadSiteData(fs, site) == LoadLatest(fs, Glob(fs, site))

\* the truth value Python gives to what load_site_data returned
Truthy(x) == x.t = "dict" /\ DOMAIN x.d # {}

----------------------------------------------------------------------------
(* DataConsolidator.normalize_site_data *)

site_configs ==
    [tripadvisor |-> [nome |-> "TripAdvisor", rating_scale |-> "1-5",
                      extraction_method |-> "GraphQL API",
                      description |-> "Maior plataforma de reviews de turismo do mundo"],
     booking |-> [nome |-> "Booking.com", rating_scale |-> "1-10",
                  extraction_method |-> "HTML Parsing + Anti-block",
                  description |-> "Lider mundial em reservas de hospedagem"],
     google |-> [nome |-> "Google Places", rating_scale |-> "1-5",
                 extraction_method |-> "Official Places API",
                 description |-> "API oficial do Google com dados em tempo real"],
     decolar |-> [nome |-> "Decolar", rating_scale |-> "1-10",
                  extraction_method |-> "HTML Parsing + Fallback",
                  description |-> "Maior OTA da America Latina"]]

\* sum(h['review_count'] for h in hotels)
RECURSIVE SumReviewCount(_)
SumReviewCount(hotels) ==
    IF hotels = <<>> THEN 0 ELSE hotels[1].review_count.n + SumReviewCount(Tail(hotels))

\* sum of a sequence of floats, in hundredths
RECURSIVE SumFloats(_)
SumFloats(xs) == IF xs = <<>> THEN 0 ELSE xs[1].h + SumFloats(Tail(xs))

\* [h['rating'] for h in hotels]
RatingsOf(hotels) == [i \in 1..Len(hotels) |-> hotels[i].rating]

\* round(num / den, 2) in hundredths: Python rounds the exact value to the
\* nearest hundredth, a tie to the even one.  The ratings of the model are
\* multiples of 0.25 and fewer than ten are averaged, so the float sum is
\* exact and every tie is a multiple of 0.125, which a float holds exactly.
RoundHalfEven(num, den) ==
    LET q == num \div den
        r == num % den
    IN  IF 2 * r < den THEN q
        ELSE IF 2 * r > den THEN q + 1
        ELSE IF q % 2 = 0 THEN q ELSE q + 1

\* the mean without the guard for the empty sequence
MeanRatingUnguarded(ratings) ==
    IF ratings # <<>> THEN Ok(FloatV(RoundHalfEven(SumFloats(ratings), Len(ratings))))
    ELSE Raise("ZeroDivisionError")

\* round(sum(ratings) / len(ratings), 2) if ratings else 0
MeanRating(ratings) ==
    IF ratings # <<>> THEN Ok(FloatV(RoundHalfEven(SumFloats(ratings), Len(ratings))))
    ELSE Ok(IntV(0))

\* the records of the hotels, or the exception of the first that raised
HotelsOrRaise(results) ==
    IF ~FirstRaise(results).ok THEN FirstRaise(results)
    ELSE Ok([i \in 1..Len(results) |-> results[i].v])

\* the loop over site_data.get('hoteis', []) that fills normalized_hotels
NormalizedHotels(hoteis, site) ==
    HotelsOrRaise([i \in 1..Len(hoteis) |-> NormalizeHotelData(hoteis[i], site)])

\* the dict normalize_site_data returns
SiteReport(site, metadata, normalized_hotels, mean) ==
    IF ~mean.ok THEN mean
    ELSE Ok([site_info |-> site_configs[site],
             metadata |->
                [total_hoteis |-> IntV(Len(normalized_hotels)),
                 timestamp_extracao |-> Get(metadata, "timestamp_extracao", EmptyStr),
                 versao_scraper |-> Get(metadata, "versao_scraper", EmptyStr),
                 extraction_stats |->
                    [sucesso |-> IntV(Len(normalized_hotels)),
                     total_avaliacoes |-> IntV(SumReviewCount(normalized_hotels)),
                     rating_medio |-> mean.v]],
             hoteis |-> normalized_hotels])

\* normalize_site_data once the hotels are normalised, or one of them raised
SiteReportOf(site, metadata, hotels) ==
    IF ~hotels.ok THEN hotels
    ELSE SiteReport(site, metadata, hotels.v, MeanRating(RatingsOf(hotels.v)))

\* normalize_site_data(site_data, site)
NormalizeSiteData(site_data, site) ==
    SiteReportOf(site, Get(site_data, "metadata", EmptyDict),
                 NormalizedHotels(Get(site_data, "hoteis", <<>>), site))

----------------------------------------------------------------------------
(* DataConsolidator.generate_consolidated_json: the report it builds *)

\* the loop variables before the first site
LoopStart == [sites |-> EmptyDict, all_ratings |-> <<>>, total_reviews |-> 0, total_hotels |-> 0]

\* the statistics update that adds the site's mean once instead of its hotels' ratings
LoopBodyMeanOfMeans(acc, site, normalized_site) ==
    [sites |-> Update(acc.sites, [k \in {site} |-> normalized_site]),
     all_ratings |-> acc.all_ratings \o
        (IF normalized_site.hoteis = <<>> THEN <<>>
         ELSE <<normalized_site.metadata.extraction_stats.rating_medio>>),
     total_reviews |-> acc.total_reviews + SumReviewCount(normalized_site.hoteis),
     total_hotels |-> acc.total_hotels + Len(normalized_site.hoteis)]

\* the statistics update that counts the site's hotels but not their reviews
LoopBodyNoReviews(acc, site, normalized_site) ==
    [sites |-> Update(acc.sites, [k \in {site} |-> normalized_site]),
     all_ratings |-> acc.all_ratings \o RatingsOf(normalized_site.hoteis),
     total_reviews |-> acc.total_reviews,
     total_hotels |-> acc.total_hotels + Len(normalized_site.hoteis)]

\* lines 253-259: the site's entry and the update of the global statistics
LoopBody(acc, site, normalized_site) ==
    [sites |-> Update(acc.sites, [k \in {site} |-> normalized_site]),
     all_ratings |-> acc.all_ratings \o RatingsOf(normalized_site.hoteis),
     total_reviews |-> acc.total_reviews + SumReviewCount(normalized_site.hoteis),
     total_hotels |-> acc.total_hotels + Len(normalized_site.hoteis)]

\* the for loop of lines 247-263, from the i-th site on
RECURSIVE ProcessSites(_, _, _)
RECURSIVE ProcessLoaded(_, _, _, _)
RECURSIVE ProcessNormalized(_, _, _, _)

ProcessSites(fs, i, acc) ==
    IF i > Len(Sites) THEN Ok(acc)
    ELSE ProcessLoaded(fs, i, acc, LoadSiteData(fs, Sites[i]))

\* lines 249-263: the body of the loop once load_site_data returned
ProcessLoaded(fs, i, acc, site_data) ==
    IF Truthy(site_data)
    THEN ProcessNormalized(fs, i, acc, NormalizeSiteData(site_data.d, Sites[i]))
    ELSE ProcessSites(fs, i + 1, acc)

\* lines 253-259 once normalize_site_data returned; its exception leaves the loop
ProcessNormalized(fs, i, acc, normalized_site) ==
    IF ~normalized_site.ok THEN normalized_site
    ELSE ProcessSites(fs, i + 1, LoopBody(acc, Sites[i], normalized_site.v))

\* lines 265-270: the global statistics stored into the metadata
WithStatistics(acc, mean, clock) ==
    IF ~mean.ok THEN mean
    ELSE Ok([metadata |->
                [timestamp_consolidacao |-> clock,
                 versao_sistema |-> "2.0.0-multi-site",
                 total_sites |-> IntV(Cardinality(DOMAIN acc.sites)),
                 total_hoteis |-> IntV(acc.total_hotels),
                 total_avaliacoes |-> IntV(acc.total_reviews),
                 rating_medio_geral |-> mean.v],
             sites |-> acc.sites])

\* the report after the loop, or the exception that left the loop
AfterLoop(loop, clock) ==
    IF ~loop.ok THEN loop
    ELSE WithStatistics(loop.v, MeanRating(loop.v.all_ratings), clock)

\* consolidated_data as it stands before the write, or the exception raised
ConsolidatedData(fs, clock) == AfterLoop(ProcessSites(fs, 1, LoopStart), clock)

----------------------------------------------------------------------------
(* Raw hotel records handed to _normalize_hotel_data *)

MaxNamePieces == 4

NamePieces ==
    {<<"H", "o", "t", "e", "l">>, <<" ">>, <<"h", "o", "t", "e", "l", "_">>,
     <<"S", "a~", "o", " ", "J", "o", "a~", "o">>, <<"C,">>, <<"e'">>}

RECURSIVE NamesOf(_)
NamesOf(n) ==
    IF n = 0 THEN {<<>>}
    ELSE LET shorter == NamesOf(n - 1)
         IN  shorter \cup {a \o p : a \in shorter, p \in NamePieces}

HotelNames == NamesOf(MaxNamePieces)

NumericKeys == {"rating", "review_count", "reviews", "max_rating"}

NumericVals ==
    {IntV(1200), IntV(-5), FloatV(450), Str(<<"4", ".", "5">>), Str(<<"1", "2", "0", "0">>),
     Str(<<"N", "/", "A">>), Null, List(<<EmptyStr>>)}

StringKeys ==
    {"hotel_id", "hotel_name", "hotel_url", "url", "google_url", "source", "data_source",
     "extraction_timestamp", "timestamp", "hotel_search_term"}

StringSample ==
    [hotel_id |-> Str(<<"1", "2", "3">>),
     hotel_name |-> Str(<<"H", "o", "t", "e", "l", " ", "X">>),
     hotel_url |-> Str(<<"u", "1">>),
     url |-> Str(<<"u", "2">>),
     google_url |-> Str(<<"u", "3">>),
     source |-> Str(<<"a", "p", "i">>),
     data_source |-> Str(<<"l", "i", "v", "e">>),
     extraction_timestamp |-> Str(<<"t", "1">>),
     timestamp |-> Str(<<"t", "2">>),
     hotel_search_term |-> Str(<<"q">>)]

\* records that carry any values under the numeric keys (and no other key)
NumericRecords == UNION {[S -> NumericVals] : S \in SUBSET NumericKeys}

\* records that carry any subset of the string keys
StringRecords == {[k \in S |-> StringSample[k]] : S \in SUBSET StringKeys}

\* records that carry a hotel name only
NameRecords == {[k \in {"hotel_name"} |-> Str(n)] : n \in HotelNames}
                 \cup {[k \in {"hotel_name"} |-> Null]}

RawRecords == NumericRecords \cup StringRecords \cup NameRecords

----------------------------------------------------------------------------
(* Specification of one call of _normalize_hotel_data *)

ScrapeIdle ==
    sCall = Null /\ sResults = Null /\ rng = 0 /\ hashSeed = 0 /\ fallbacks = <<>>

OrchIdle == configured = {} /\ orchRuns = <<>>

ApiIdle ==
    /\ apiConfig = [API_ENABLE_AUTH |-> FALSE, API_SECRET_KEY |-> EmptyStr]
    /\ jobs_storage = EmptyDict
    /\ tasks = EmptyDict
    /\ response = Null

DirIdle == files = EmptyDict /\ now = 0 /\ nextCtime = 0 /\ runs = <<>>

InitNorm ==
    /\ nPc = "call"
    /\ nSite \in SiteSet
    /\ nRaw \in RawRecords
    /\ nOut = Null
    /\ mCall = Null
    /\ DirIdle
    /\ ScrapeIdle /\ OrchIdle /\ ApiIdle

NormalizeReturns ==
    /\ nPc = "call"
    /\ \E out \in {NormalizeHotelData(nRaw, nSite)} :
          /\ out.ok
          /\ nOut' = out.v
    /\ nPc' = "returned"
    /\ UNCHANGED <<nSite, nRaw, mCall, dirVars, restVars>>

NormalizeRaises ==
    /\ nPc = "call"
    /\ \E out \in {NormalizeHotelData(nRaw, nSite)} :
          /\ ~out.ok
          /\ nOut' = out
    /\ nPc' = "raised"
    /\ UNCHANGED <<nSite, nRaw, mCall, dirVars, restVars>>

NextNorm == NormalizeReturns \/ NormalizeRaises

SpecNorm == InitNorm /\ [][NextNorm]_vars

----------------------------------------------------------------------------
(* Specification of the Consolidator over a results directory *)

MaxHotels == 3     \* hotels in the raw files of the directory, all sites together, for one call
MaxDirHotels == 1  \* the same, for a sequence of calls
MaxDirFiles == 2   \* raw files in the directory, for a sequence of calls
MaxRuns == 2       \* calls of generate_consolidated_json in a sequence

\* the key under which a site's raw record carries its review count
ReviewCountKey(site) == IF site = "booking" THEN "reviews" ELSE "review_count"

NormIdle ==
    nPc = "idle" /\ nSite = "tripadvisor" /\ nRaw = EmptyDict /\ nOut = Null /\ mCall = Null

HotelX == Str(<<"H", "o", "t", "e", "l", " ", "X">>)

\* raw records of a site: 4.5 with 89 reviews, 4.25 with "1200" reviews, and
\* one whose rating is the text N/A
SampleHotels(site) ==
    {[k \in {"hotel_name", "rating", ReviewCountKey(site)} |->
         IF k = "hotel_name" THEN HotelX ELSE IF k = "rating" THEN FloatV(450) ELSE IntV(89)],
     [k \in {"rating", ReviewCountKey(site)} |->
         IF k = "rating" THEN FloatV(425) ELSE Str(<<"1", "2", "0", "0">>)],
     [k \in {"rating", ReviewCountKey(site)} |->
         IF k = "rating" THEN Str(<<"N", "/", "A">>) ELSE IntV(89)]}

Absent == [kind |-> "absent"]

\* the object _save_results_to_json writes for a site
RawObject(site, results) ==
    [metadata |-> [site |-> site, total_hoteis |-> IntV(Len(results)),
                   timestamp_extracao |-> Str(<<"t", "0">>),
                   versao_scraper |-> Str(<<"2", ".", "0">>)],
     hoteis |-> results]

\* what the raw file of a site may hold when it holds n hotels
RawContents(site, n) ==
    IF n = 0
    THEN {Absent, Unparsable, Json(EmptyDict), Json([k \in {"hoteis"} |-> <<>>])}
    ELSE {Json(RawObject(site, results)) : results \in [1..n -> SampleHotels(site)]}

SiteIndex(site) == CHOOSE i \in 1..Len(Sites) : Sites[i] = site

\* the directory that holds, for each site, the content c[site] in one raw file
DirectoryOf(c) ==
    [n \in {Path(site, "dados", 0) : site \in {x \in SiteSet : c[x] # Absent}} |->
        [ctime |-> SiteIndex(n.prefix), content |-> c[n.prefix]]]

RECURSIVE SumLens(_, _)
SumLens(lens, i) == IF i > Len(Sites) THEN 0 ELSE lens[Sites[i]] + SumLens(lens, i + 1)

\* a directory of at most maxFiles raw files, one per site, and at most
\* maxHotels hotels, before the first call
InitDirectory(maxHotels, maxFiles) ==
    /\ NormIdle
    /\ ScrapeIdle /\ OrchIdle /\ ApiIdle
    /\ now = 0
    /\ nextCtime = Len(Sites) + 1
    /\ runs = <<>>
    /\ \E lens \in [SiteSet -> 0..maxHotels] :
          /\ SumLens(lens, 1) <= maxHotels
          /\ \E c1 \in RawContents(Sites[1], lens[Sites[1]]),
                c2 \in RawContents(Sites[2], lens[Sites[2]]),
                c3 \in RawContents(Sites[3], lens[Sites[3]]),
                c4 \in RawContents(Sites[4], lens[Sites[4]]) :
                /\ Cardinality({c \in {<<1, c1>>, <<2, c2>>, <<3, c3>>, <<4, c4>>} :
                                    c[2] # Absent}) <= maxFiles
                /\ files = DirectoryOf([site \in SiteSet |->
                               IF site = Sites[1] THEN c1 ELSE IF site = Sites[2] THEN c2
                               ELSE IF site = Sites[3] THEN c3 ELSE c4])

\* filename = f"{results_dir}/scraper_dados_{timestamp}.json"
ReportPath(clock) == Path("scraper", "dados", clock)

\* generate_consolidated_json: the report is built and written, the path returned
GenerateWrites(limit) ==
    /\ Len(runs) < limit
    /\ \E built \in {ConsolidatedData(files, now)} :
           /\ built.ok
           /\ files' = Update(files, [n \in {ReportPath(now)} |->
                           [ctime |-> nextCtime, content |-> Json(built.v)]])
           /\ runs' = Append(runs, [outcome |-> "path", path |-> ReportPath(now),
                                    data |-> built.v])
    /\ nextCtime' = nextCtime + 1
    /\ UNCHANGED <<now, normVars, restVars>>

\* generate_consolidated_json: open() of the report file raises; None is returned
GenerateOpenFails(limit) ==
    /\ Len(runs) < limit
    /\ \E built \in {ConsolidatedData(files, now)} :
           /\ built.ok
           /\ runs' = Append(runs, [outcome |-> "none", path |-> ReportPath(now),
                                    data |-> built.v])
    /\ UNCHANGED <<files, nextCtime, now, normVars, restVars>>

\* generate_consolidated_json: json.dump raises after open() created or
\* truncated the report file; None is returned
GenerateDumpFails(limit) ==
    /\ Len(runs) < limit
    /\ \E built \in {ConsolidatedData(files, now)} :
           /\ built.ok
           /\ runs' = Append(runs, [outcome |-> "none", path |-> ReportPath(now),
                                    data |-> built.v])
    /\ files' = Update(files, [n \in {ReportPath(now)} |->
                    [ctime |-> nextCtime, content |-> Unparsable]])
    /\ nextCtime' = nextCtime + 1
    /\ UNCHANGED <<now, normVars, restVars>>

\* generate_consolidated_json: normalize_site_data raises inside the loop,
\* which no try block encloses; nothing is written
GenerateRaises(limit) ==
    /\ Len(runs) < limit
    /\ \E built \in {ConsolidatedData(files, now)} :
           /\ ~built.ok
           /\ runs' = Append(runs, [outcome |-> "raised", path |-> ReportPath(now),
                                    data |-> Str(<<built.err>>)])
    /\ UNCHANGED <<files, nextCtime, now, normVars, restVars>>

\* the wall clock passes to the next second after a call
Tick ==
    /\ now < Len(runs)
    /\ now' = now + 1
    /\ UNCHANGED <<files, nextCtime, runs, normVars, restVars>>

\* a sequence of calls on one directory, seconds passing between them
Init == InitDirectory(MaxDirHotels, MaxDirFiles)

Next ==
    \/ GenerateWrites(MaxRuns)
    \/ GenerateOpenFails(MaxRuns)
    \/ GenerateDumpFails(MaxRuns)
    \/ GenerateRaises(MaxRuns)
    \/ Tick

Spec == Init /\ [][Next]_vars

\* one call on a directory
InitReport == InitDirectory(MaxHotels, Len(Sites))

NextReport ==
    \/ GenerateWrites(1)
    \/ GenerateOpenFails(1)
    \/ GenerateDumpFails(1)
    \/ GenerateRaises(1)

SpecReport == InitReport /\ [][NextReport]_vars

----------------------------------------------------------------------------
(* DataConsolidator.update_individual_jsons *)

\* what a write of an output file does: it succeeds, open() raises, or
\* json.dump raises after open() created or truncated the file
WriteOutcomes == {"ok", "open_fails", "dump_fails"}

\* filename = f"{results_dir}/{site}_normalizado_{timestamp}.json"
NormalizedPath(site, clock) == Path(site, "normalizado", clock)

\* the try block of lines 323-331 on the directory
WriteNormalized(fs, site, clock, ctime, outcome, normalized_site) ==
    IF outcome = "open_fails" THEN fs
    ELSE Update(fs, [n \in {NormalizedPath(site, clock)} |->
                        [ctime |-> ctime,
                         content |-> IF outcome = "ok" THEN Json(normalized_site)
                                     ELSE Unparsable]])

\* the loop variables before the first site
UpdateStart(fs, ctime) ==
    [raised |-> FALSE, files |-> fs, updated_files |-> EmptyDict, ctime |-> ctime]

\* lines 319-331: the write of a site and its entry in updated_files
UpdateBody(acc, site, clock, outcome, normalized_site) ==
    [raised |-> FALSE,
     files |-> WriteNormalized(acc.files, site, clock, acc.ctime, outcome, normalized_site),
     updated_files |-> IF outcome = "ok"
                       THEN Update(acc.updated_files,
                                   [k \in {site} |-> NormalizedPath(site, clock)])
                       ELSE acc.updated_files,
     ctime |-> IF outcome = "open_fails" THEN acc.ctime ELSE acc.ctime + 1]

\* the for loop of lines 312-333, from the i-th site on; w gives the outcome
\* of each site's write
RECURSIVE UpdateSites(_, _, _, _)
RECURSIVE UpdateLoaded(_, _, _, _, _)
RECURSIVE UpdateNormalized(_, _, _, _, _)

UpdateSites(acc, i, clock, w) ==
    IF i > Len(Sites) THEN acc
    ELSE UpdateLoaded(acc, i, clock, w, LoadSiteData(acc.files, Sites[i]))

\* lines 316-333: the body of the loop once load_site_data returned
UpdateLoaded(acc, i, clock, w, site_data) ==
    IF Truthy(site_data)
    THEN UpdateNormalized(acc, i, clock, w, NormalizeSiteData(site_data.d, Sites[i]))
    ELSE UpdateSites(acc, i + 1, clock, w)

\* lines 319-331 once normalize_site_data returned; its exception leaves the
\* function with the files written so far
UpdateNormalized(acc, i, clock, w, normalized_site) ==
    IF ~normalized_site.ok THEN [acc EXCEPT !.raised = TRUE]
    ELSE UpdateSites(UpdateBody(acc, Sites[i], clock, w[Sites[i]], normalized_site.v),
                     i + 1, clock, w)

\* update_individual_jsons(results_dir)
UpdateIndividualJsons(limit) ==
    /\ Len(runs) < limit
    /\ \E w \in [SiteSet -> WriteOutcomes] :
          \E done \in {UpdateSites(UpdateStart(files, nextCtime), 1, now, w)} :
              /\ files' = done.files
              /\ nextCtime' = done.ctime
              /\ runs' = Append(runs,
                            [outcome |-> IF done.raised THEN "raised" ELSE "updated",
                             path |-> ReportPath(now), data |-> done.updated_files])
    /\ UNCHANGED <<now, normVars, restVars>>

\* calls of both output-writing functions on one directory
InitOutputs == InitDirectory(MaxDirHotels, MaxDirFiles)

NextOutputs ==
    \/ GenerateWrites(MaxRuns)
    \/ GenerateOpenFails(MaxRuns)
    \/ GenerateDumpFails(MaxRuns)
    \/ GenerateRaises(MaxRuns)
    \/ UpdateIndividualJsons(MaxRuns)
    \/ Tick

SpecOutputs == InitOutputs /\ [][NextOutputs]_vars

----------------------------------------------------------------------------
(* The site adapters: fallback generators and scrape_multiple_hotels *)

MaxConfigHotels == 2   \* hotels in the mapping handed to an adapter
MaxFallbacks == 2      \* fallback generations in a sequence
HashStates == 4        \* values hash() takes in the model
RngStates == 3         \* states of the random generator in the model

\* hash(text) of the process: a function of the text and of the process's hash seed
Hash(text) == (hashSeed + Len(text)) % HashStates

\* the value a draw takes in lo..hi when the generator is in state st
Draw(st, lo, hi) == lo + (st % (hi - lo + 1))

\* the generator after a draw
Advance(st) == (st + 1) % RngStates

\* lines 166-169 (booking), 116-119 (google), 171-174 (decolar): the rating in
\* tenths and the review count drawn after random.seed(hash(key))
SeededData(site, key) ==
    IF site = "booking"
    THEN [rating |-> Draw(Hash(key), 85, 93), reviews |-> Draw(Advance(Hash(key)), 500, 3000)]
    ELSE IF site = "google"
    THEN [rating |-> Draw(Hash(key), 40, 49), reviews |-> Draw(Advance(Hash(key)), 100, 2500)]
    ELSE [rating |-> Draw(Hash(key), 80, 95), reviews |-> Draw(Advance(Hash(key)), 150, 600)]

Max2(a, b) == IF a >= b THEN a ELSE b
Min2(a, b) == IF a <= b THEN a ELSE b

\* booking lines 171-180: after random.seed() left the generator in state st,
\* rating_variation and review_variation are drawn and added
BookingFallback(seeded, st) ==
    [rating |-> Max2(10, Min2(100, seeded.rating + Draw(st, -1, 1))),
     reviews |-> Max2(1, seeded.reviews + Draw(Advance(st), -50, 100)),
     rng |-> Advance(Advance(st))]

\* _get_fallback_data / _get_realistic_fallback_data for the key, random.seed()
\* leaving the generator in state st: rating in tenths, review count, generator
FallbackData(site, key, st) ==
    IF site = "booking" THEN BookingFallback(SeededData(site, key), st)
    ELSE [rating |-> SeededData(site, key).rating,
          reviews |-> SeededData(site, key).reviews, rng |-> st]

\* a URL is a tuple of pieces; the separators the adapters split at are
\* pieces of their own: "-d" and "-" for TripAdvisor, "/h-" and "/" for Decolar
PiecesUpTo(url, i, stops) ==
    LET rest == SubSeq(url, i, Len(url))
        stop == IF \E k \in 1..Len(rest) : rest[k] \in stops
                THEN CHOOSE k \in 1..Len(rest) :
                        rest[k] \in stops /\ \A m \in 1..(k - 1) : rest[m] \notin stops
                ELSE Len(rest) + 1
    IN  SubSeq(rest, 1, stop - 1)

\* _extract_hotel_id: url.split(sep)[1].split(end)[0], or nothing without sep
ExtractHotelId(url, sep, end) ==
    IF \E i \in 1..Len(url) : url[i] = sep
    THEN PiecesUpTo(url,
                    (CHOOSE i \in 1..Len(url) :
                        url[i] = sep /\ \A m \in 1..(i - 1) : url[m] # sep) + 1,
                    {sep, end})
    ELSE <<>>

\* what the request for a hotel meets
Net == {"data", "non200", "unparsable", "error"}

\* the record of a hotel whose data were extracted (4.5 with 89 reviews)
ScrapedRecord(site, hotel) ==
    [k \in {"hotel_name", "rating", ReviewCountKey(site), "source"} |->
        IF k = "hotel_name" THEN Str(hotel.name)
        ELSE IF k = "rating" THEN FloatV(450)
        ELSE IF k = "source" THEN Str(<<site, "_", "realtime">>)
        ELSE IntV(89)]

\* the record built from fallback data
FallbackRecord(site, hotel, data) ==
    [k \in {"hotel_name", "rating", ReviewCountKey(site), "source"} |->
        IF k = "hotel_name" THEN Str(hotel.name)
        ELSE IF k = "rating" THEN FloatV(10 * data.rating)
        ELSE IF k = "source" THEN Str(<<site, "_", "fallback">>)
        ELSE IntV(data.reviews)]

\* TripAdvisorScraper.scrape_hotel: None (here <<>>) unless the id is in the
\* URL, is a number and the response yields rating data
TripAdvisorScrapeHotel(hotel) ==
    IF ExtractHotelId(hotel.url, "-d", "-") = <<>> THEN <<>>
    ELSE IF AllDigits(ExtractHotelId(hotel.url, "-d", "-")) /\ hotel.net = "data"
    THEN <<ScrapedRecord("tripadvisor", hotel)>>
    ELSE <<>>

\* DecolarScraper.scrape_hotel: None without an id in the URL, otherwise the
\* data or the fallback keyed by the id
DecolarScrapeHotel(hotel, st) ==
    IF ExtractHotelId(hotel.url, "/h-", "/") = <<>> THEN <<>>
    ELSE IF hotel.net = "data" THEN <<ScrapedRecord("decolar", hotel)>>
    ELSE <<FallbackRecord("decolar", hotel,
                          FallbackData("decolar", ExtractHotelId(hotel.url, "/h-", "/"), st))>>

\* BookingScraper.scrape_hotel and GoogleTravelScraper.scrape_hotel: the data
\* or the fallback keyed by the hotel name
NamedScrapeHotel(site, hotel, st) ==
    IF hotel.net = "data" THEN <<ScrapedRecord(site, hotel)>>
    ELSE <<FallbackRecord(site, hotel, FallbackData(site, hotel.name, st))>>

\* booking lines 303-310: converted_config is keyed by the synthesized hotel
\* id; a later hotel with the id of an earlier one takes its place
RECURSIVE ConvertedConfig(_, _)
ConvertedConfig(hotels, converted) ==
    IF hotels = <<>> THEN converted
    ELSE ConvertedConfig(Tail(hotels),
            IF \E k \in 1..Len(converted) :
                  GenerateHotelIdChars(converted[k].name) = GenerateHotelIdChars(hotels[1].name)
            THEN [k \in 1..Len(converted) |->
                     IF GenerateHotelIdChars(converted[k].name)
                            = GenerateHotelIdChars(hotels[1].name)
                     THEN hotels[1] ELSE converted[k]]
            ELSE Append(converted, hotels[1]))

\* the loop over the mapping: the records appended to results
RECURSIVE ScrapeEach(_, _, _)
ScrapeEach(site, hotels, st) ==
    IF hotels = <<>> THEN <<>>
    ELSE (IF site = "tripadvisor" THEN TripAdvisorScrapeHotel(hotels[1])
          ELSE IF site = "decolar" THEN DecolarScrapeHotel(hotels[1], st)
          ELSE NamedScrapeHotel(site, hotels[1], st))
         \o ScrapeEach(site, Tail(hotels), st)

\* scrape_multiple_hotels(hotels_config) of the adapter of a site
ScrapeMultipleHotels(site, hotels, st) ==
    IF site = "booking" THEN ScrapeEach(site, ConvertedConfig(hotels, <<>>), st)
    ELSE ScrapeEach(site, hotels, st)

HotelY == <<"Y">>
LowerHotelX == <<"h", "o", "t", "e", "l", " ", "x">>

ConfigNames == {HotelX.c, LowerHotelX, HotelY}

ConfigUrls ==
    {<<"https://site/Hotel_Review", "-d", "123", "-", "Reviews">>,
     <<"https://site/hotels", "/h-", "123", "/", "x">>,
     <<"https://site/hotel">>}

\* the mappings {hotel_name: url} of one to n hotels, in insertion order, each
\* with what its request meets
HotelsConfigs(n) ==
    UNION {{h \in [1..k -> [name : ConfigNames, url : ConfigUrls, net : Net]] :
               \A i, j \in 1..k : i # j => h[i].name # h[j].name} : k \in 1..n}

InitScrape ==
    /\ NormIdle /\ DirIdle /\ OrchIdle /\ ApiIdle
    /\ sCall \in [site : SiteSet, hotels : HotelsConfigs(MaxConfigHotels)]
    /\ sResults = Null
    /\ rng \in 0..(RngStates - 1)
    /\ hashSeed \in 0..1
    /\ fallbacks = <<>>

\* the adapter's scrape_multiple_hotels runs; random.seed() in a fallback
\* leaves the generator in any state
ScrapeReturns ==
    /\ sResults = Null
    /\ \E st \in 0..(RngStates - 1) :
          /\ sResults' = List(ScrapeMultipleHotels(sCall.site, sCall.hotels, st))
          /\ rng' = st
    /\ UNCHANGED <<sCall, hashSeed, fallbacks, normVars, dirVars, orchVars, apiVars>>

\* a fallback generation of an adapter for a key (the hotel name; the hotel
\* id for decolar); random.seed() leaves the generator in any state
GetFallbackData ==
    /\ Len(fallbacks) < MaxFallbacks
    /\ \E site \in {"booking", "google", "decolar"}, key \in ConfigNames,
          st \in 0..(RngStates - 1) :
          /\ fallbacks' = Append(fallbacks,
                [site |-> site, key |-> key,
                 rating |-> FallbackData(site, key, st).rating,
                 reviews |-> FallbackData(site, key, st).reviews])
          /\ rng' = FallbackData(site, key, st).rng
    /\ UNCHANGED <<sCall, sResults, hashSeed, normVars, dirVars, orchVars, apiVars>>

\* a draw of delay jitter between two hotels
Jitter ==
    /\ rng' = Advance(rng)
    /\ UNCHANGED <<sCall, sResults, hashSeed, fallbacks, normVars, dirVars, orchVars, apiVars>>

\* one call of an adapter's scrape_multiple_hotels
NextScrape == ScrapeReturns

SpecScrape == InitScrape /\ [][NextScrape]_vars

\* fallback generations of one process, with draws between them
InitFallback ==
    /\ NormIdle /\ DirIdle /\ OrchIdle /\ ApiIdle
    /\ sCall = Null
    /\ sResults = Null
    /\ rng \in 0..(RngStates - 1)
    /\ hashSeed \in 0..1
    /\ fallbacks = <<>>

NextFallback == GetFallbackData \/ Jitter

SpecFallback == InitFallback /\ [][NextFallback]_vars

----------------------------------------------------------------------------
(* The Orchestrator: scrape_site, scrape_all_sites, consolidate_data, main *)

MaxOrchRuns == 2     \* runs of main() in a sequence
MaxConfigured == 1   \* sites for which config.env holds hotels
MaxSitesArg == 2     \* sites named after --sites

\* what befalls one site of a run: its adapter returns no record or the save
\* fails (scrape_site returns None or ""), or scrape_site raises (os.makedirs
\* of line 116 or the adapter)
NoFault == [site |-> "", kind |-> "none"]
Faults == {NoFault} \cup [site : configured, kind : {"no_file", "raises"}]

\* the record scraped for the one hotel of a configured site
ScrapedHotel(site) ==
    [k \in {"hotel_name", "rating", ReviewCountKey(site)} |->
        IF k = "hotel_name" THEN HotelX ELSE IF k = "rating" THEN FloatV(450) ELSE IntV(89)]

\* filename = f"resultados/{site}_dados_{timestamp}.json"
RawPath(site, clock) == Path(site, "dados", clock)

\* a run as it starts: the directory, the next ctime, the files returned by
\* scrape_site so far, what the run did, in order, and what consolidate_data
\* returned
RunStart(fs, ctime) ==
    [files |-> fs, ctime |-> ctime, results |-> EmptyDict, events |-> <<>>,
     raised |-> FALSE, consolidated |-> Null]

WithEvent(acc, event) == [acc EXCEPT !.events = Append(@, event)]

\* scrape_site(site) with _save_results_to_json, and the caller's
\* results[site] = json_file when a file name is returned
ScrapeSite(acc, site, clock, fault) ==
    IF site \notin configured THEN WithEvent(acc, [e |-> "scrape", site |-> site])
    ELSE IF fault.site = site /\ fault.kind = "raises"
    THEN [WithEvent(acc, [e |-> "scrape", site |-> site]) EXCEPT !.raised = TRUE]
    ELSE IF fault.site = site /\ fault.kind = "no_file"
    THEN WithEvent(acc, [e |-> "scrape", site |-> site])
    ELSE [files |-> Update(acc.files, [n \in {RawPath(site, clock)} |->
                        [ctime |-> acc.ctime,
                         content |-> Json(RawObject(site, <<ScrapedHotel(site)>>))]]),
          ctime |-> acc.ctime + 1,
          results |-> Update(acc.results, [k \in {site} |-> RawPath(site, clock)]),
          events |-> acc.events \o <<[e |-> "scrape", site |-> site],
                                     [e |-> "write", path |-> RawPath(site, clock)]>>,
          raised |-> FALSE, consolidated |-> acc.consolidated]

\* the raw files whose hotels a report built from the directory holds
ConsumedFiles(fs) ==
    {[path |-> LatestFile(fs, Glob(fs, site)),
      ctime |-> fs[LatestFile(fs, Glob(fs, site))].ctime] :
        site \in {s \in SiteSet : Truthy(LoadSiteData(fs, s))}}

\* consolidate_data once the report is built or the Consolidator raised: the
\* write succeeds, or None is returned
ConsolidateBuilt(acc, clock, outcome, built) ==
    IF ~built.ok \/ outcome = "open_fails"
    THEN WithEvent(acc, [e |-> "consolidate", ret |-> Null, inputs |-> {}])
    ELSE IF outcome = "dump_fails"
    THEN [WithEvent(acc, [e |-> "consolidate", ret |-> Null, inputs |-> {}])
             EXCEPT !.files = Update(acc.files, [n \in {ReportPath(clock)} |->
                                        [ctime |-> acc.ctime, content |-> Unparsable]]),
                    !.ctime = acc.ctime + 1]
    ELSE [WithEvent(acc, [e |-> "consolidate", ret |-> ReportPath(clock),
                          inputs |-> ConsumedFiles(acc.files)])
             EXCEPT !.files = Update(acc.files, [n \in {ReportPath(clock)} |->
                                        [ctime |-> acc.ctime, content |-> Json(built.v)]]),
                    !.ctime = acc.ctime + 1,
                    !.consolidated = ReportPath(clock)]

\* consolidate_data()
ConsolidateData(acc, clock, outcome) ==
    ConsolidateBuilt(acc, clock, outcome, ConsolidatedData(acc.files, clock))

\* _cleanup_individual_files(results), from the i-th site on
RECURSIVE CleanupIndividualFiles(_, _)
CleanupIndividualFiles(acc, i) ==
    IF i > Len(Sites) THEN acc
    ELSE IF Sites[i] \in DOMAIN acc.results /\ acc.results[Sites[i]] \in DOMAIN acc.files
    THEN CleanupIndividualFiles(
            [WithEvent(acc, [e |-> "delete", path |-> acc.results[Sites[i]]])
                EXCEPT !.files = [n \in DOMAIN acc.files \ {acc.results[Sites[i]]} |->
                                     acc.files[n]]],
            i + 1)
    ELSE CleanupIndividualFiles(acc, i + 1)

\* the cleanup made whatever consolidate_data returned
AfterConsolidationAlways(acc) == CleanupIndividualFiles(acc, 1)

\* lines 195-196: the cleanup when consolidate_data returned a path
AfterConsolidation(acc) ==
    IF acc.consolidated # Null THEN CleanupIndividualFiles(acc, 1) ELSE acc

\* lines 193-196: consolidation and cleanup when some site returned a file
AfterScraping(acc, clock, outcome) ==
    IF DOMAIN acc.results = {} THEN acc
    ELSE AfterConsolidation(ConsolidateData(acc, clock, outcome))

\* lines 177-190: the loop over the sites, an exception of scrape_site caught
RECURSIVE ScrapeAllSitesLoop(_, _, _, _)
ScrapeAllSitesLoop(acc, i, clock, fault) ==
    IF i > Len(Sites) THEN acc
    ELSE ScrapeAllSitesLoop([ScrapeSite(acc, Sites[i], clock, fault) EXCEPT !.raised = FALSE],
                            i + 1, clock, fault)

\* scrape_all_sites()
ScrapeAllSites(fs, ctime, clock, fault, outcome) ==
    AfterScraping(ScrapeAllSitesLoop(RunStart(fs, ctime), 1, clock, fault), clock, outcome)

\* main() lines 318-321: the loop over args.sites, left by an exception
RECURSIVE MainSitesLoop(_, _, _, _)
MainSitesLoop(acc, requested, clock, fault) ==
    IF requested = <<>> \/ acc.raised THEN acc
    ELSE MainSitesLoop(ScrapeSite(acc, requested[1], clock, fault),
                       Tail(requested), clock, fault)

\* the lists of one to n different sites
SiteLists(n) ==
    UNION {{l \in [1..k -> SiteSet] : \A i, j \in 1..k : i # j => l[i] # l[j]} : k \in 1..n}

\* a run of main() ends: its effect on the directory and its record
MainReturns(mode, requested, done) ==
    /\ files' = done.files
    /\ nextCtime' = done.ctime
    /\ orchRuns' = Append(orchRuns,
                      [mode |-> mode, requested |-> requested, events |-> done.events,
                       exit |-> IF done.raised THEN 1 ELSE 0])

\* python main.py
RunAllSites(limit) ==
    /\ Len(orchRuns) < limit
    /\ \E fault \in Faults, outcome \in WriteOutcomes :
          MainReturns("all", Sites, ScrapeAllSites(files, nextCtime, now, fault, outcome))
    /\ UNCHANGED <<now, runs, configured, normVars, scrapeVars, apiVars>>

\* python main.py --site SITE
RunSite(limit) ==
    /\ Len(orchRuns) < limit
    /\ \E site \in SiteSet, fault \in Faults :
          MainReturns("site", <<site>>,
                      ScrapeSite(RunStart(files, nextCtime), site, now, fault))
    /\ UNCHANGED <<now, runs, configured, normVars, scrapeVars, apiVars>>

\* python main.py --sites SITE ...
RunSites(limit) ==
    /\ Len(orchRuns) < limit
    /\ \E requested \in SiteLists(MaxSitesArg), fault \in Faults :
          MainReturns("sites", requested,
                      MainSitesLoop(RunStart(files, nextCtime), requested, now, fault))
    /\ UNCHANGED <<now, runs, configured, normVars, scrapeVars, apiVars>>

\* python main.py --consolidar
RunConsolidar(limit) ==
    /\ Len(orchRuns) < limit
    /\ \E outcome \in WriteOutcomes :
          MainReturns("consolidar", <<>>,
                      ConsolidateData(RunStart(files, nextCtime), now, outcome))
    /\ UNCHANGED <<now, runs, configured, normVars, scrapeVars, apiVars>>

\* the wall clock passes to the next second after a run
OrchTick ==
    /\ now < Len(orchRuns)
    /\ now' = now + 1
    /\ UNCHANGED <<files, nextCtime, runs, orchVars, normVars, scrapeVars, apiVars>>

\* an empty results directory and a config.env with hotels for some sites
InitOrch ==
    /\ NormIdle /\ ScrapeIdle /\ ApiIdle
    /\ files = EmptyDict /\ now = 0 /\ nextCtime = 1 /\ runs = <<>>
    /\ configured \in {c \in SUBSET SiteSet : Cardinality(c) <= MaxConfigured}
    /\ orchRuns = <<>>

\* a sequence of runs of main(), seconds passing between them
NextOrch ==
    \/ RunAllSites(MaxOrchRuns)
    \/ RunSite(MaxOrchRuns)
    \/ RunConsolidar(MaxOrchRuns)
    \/ OrchTick

SpecOrch == InitOrch /\ [][NextOrch]_vars

\* one run of main() over all sites or over the sites named after --sites
NextOneRun == RunAllSites(1) \/ RunSites(1)

SpecOneRun == InitOrch /\ [][NextOneRun]_vars

\* sequences of runs of every mode, one run longer than those of SpecOrch
NextRuns ==
    \/ RunAllSites(MaxOrchRuns + 1)
    \/ RunSite(MaxOrchRuns + 1)
    \/ RunSites(MaxOrchRuns + 1)
    \/ RunConsolidar(MaxOrchRuns + 1)
    \/ OrchTick

SpecRuns == InitOrch /\ [][NextRuns]_vars

----------------------------------------------------------------------------
(* The job API: verify_api_key, the endpoints and execute_scraping *)

MaxJobs == 1    \* jobs started
MaxCtime == 1   \* ctime up to which POST /scraper/consolidate is still asked

\* the secret of config.env and a key that is not the secret
Secret == Str(<<"s">>)
WrongKey == Str(<<"w">>)

\* the X-API-Key header of a request: missing, empty, the secret, another key
Headers == {Null, EmptyStr, Secret, WrongKey}

HTTPException(status_code, detail) == [status_code |-> status_code, detail |-> detail]

\* verify_api_key without the comparison with the secret
VerifyApiKeyNoCompare(config, x_api_key) ==
    IF ~config.API_ENABLE_AUTH THEN Ok(TRUE)
    ELSE IF x_api_key = Null \/ x_api_key = EmptyStr
    THEN Raise(HTTPException(401, <<"API key obrigatoria">>))
    ELSE IF config.API_SECRET_KEY = EmptyStr
    THEN Raise(HTTPException(500, <<"API key nao configurada no servidor">>))
    ELSE Ok(TRUE)

\* verify_api_key(x_api_key)
VerifyApiKey(config, x_api_key) ==
    IF ~config.API_ENABLE_AUTH THEN Ok(TRUE)
    ELSE IF x_api_key = Null \/ x_api_key = EmptyStr
    THEN Raise(HTTPException(401, <<"API key obrigatoria">>))
    ELSE IF config.API_SECRET_KEY = EmptyStr
    THEN Raise(HTTPException(500, <<"API key nao configurada no servidor">>))
    ELSE IF x_api_key # config.API_SECRET_KEY
    THEN Raise(HTTPException(401, <<"API key invalida">>))
    ELSE Ok(TRUE)

\* the answer to a request: the endpoint asked with its header and path
\* parameter, the status code, the detail of an HTTPException, the body, and
\* what consolidate_data returned in the subprocess the handler ran
Answer(endpoint, key, job_id, status_code, detail, body, consolidated) ==
    [endpoint |-> endpoint, key |-> key, job_id |-> job_id, status_code |-> status_code,
     detail |-> detail, body |-> body, consolidated |-> consolidated]

\* Depends(verify_api_key) raised: the handler does not run
Rejected(endpoint, key, job_id) ==
    /\ ~VerifyApiKey(apiConfig, key).ok
    /\ response' = Answer(endpoint, key, job_id,
                          VerifyApiKey(apiConfig, key).err.status_code,
                          VerifyApiKey(apiConfig, key).err.detail, Null, "not_run")
    /\ UNCHANGED <<jobs_storage, tasks, apiConfig, dirVars, orchVars, normVars, scrapeVars>>

\* the sites of a ScrapingRequest: none, an unsupported site, a supported
\* site with an unsupported one, a site for which config.env holds hotels
RequestSites ==
    {<<>>, <<"expedia">>, <<"google", "expedia">>} \cup {<<site>> : site \in configured}

\* generate_job_id(): an identifier no job had before
NewJobId == Cardinality(DOMAIN tasks) + 1

JobIds == 1..MaxJobs

\* the check of a start request that looks at the first site only
InvalidSitesFirstOnly(sites) ==
    SelectSeq(sites, LAMBDA s : s \notin SiteSet /\ s = sites[1])

\* invalid_sites = [s for s in request.sites if s not in valid_sites]
InvalidSites(sites) == SelectSeq(sites, LAMBDA s : s \notin SiteSet)

\* the job start_scraping stores; the keys execute_scraping adds later are
\* None until then
QueuedJob(job_id, sites) ==
    [job_id |-> job_id, status |-> "queued",
     sites |-> IF sites # <<>> THEN sites ELSE Sites,
     completed_at |-> Null, error_message |-> Null, result_file |-> Null, data |-> Null]

\* the task added for execute_scraping(job_id, request.sites): where it is,
\* the return codes of its subprocesses (-1 before they exit), the sites for
\* which its scraping wrote a raw file, what its consolidation returned, the
\* ctime of the report its consolidation wrote and of the file it took as
\* result (0 for none)
QueuedTask(sites) ==
    [pc |-> "queued", sites |-> sites, scraping |-> -1, scraped |-> {},
     consolidation |-> -1, consolidated |-> "not_run", wrote |-> 0, read |-> 0]

\* POST /scraper/start
StartScraping ==
    /\ response = Null
    /\ \E key \in Headers, sites \in RequestSites :
        \/ Rejected("start", key, 0)
        \/ /\ VerifyApiKey(apiConfig, key).ok
           /\ InvalidSites(sites) # <<>>
           /\ response' = Answer("start", key, 0, 400, <<"Sites invalidos">>,
                                 [asked |-> sites], "not_run")
           /\ UNCHANGED <<jobs_storage, tasks, apiConfig, dirVars, orchVars, normVars,
                          scrapeVars>>
        \/ /\ VerifyApiKey(apiConfig, key).ok
           /\ InvalidSites(sites) = <<>>
           /\ NewJobId \in JobIds
           /\ jobs_storage' = Update(jobs_storage, [id \in {NewJobId} |->
                                                        QueuedJob(id, sites)])
           /\ tasks' = Update(tasks, [id \in {NewJobId} |-> QueuedTask(sites)])
           /\ response' = Answer("start", key, NewJobId, 200, <<>>,
                                 [job_id |-> NewJobId, status |-> "queued",
                                  sites |-> IF sites # <<>> THEN sites ELSE Sites,
                                  asked |-> sites],
                                 "not_run")
           /\ UNCHANGED <<apiConfig, dirVars, orchVars, normVars, scrapeVars>>

\* a handler that reads the job table answers
Reads(answer) ==
    /\ response' = answer
    /\ UNCHANGED <<jobs_storage, tasks, apiConfig, dirVars, orchVars, normVars, scrapeVars>>

\* GET /scraper/status/{job_id}
GetScrapingStatus ==
    /\ response = Null
    /\ \E key \in Headers, job_id \in JobIds :
        \/ Rejected("status", key, job_id)
        \/ /\ VerifyApiKey(apiConfig, key).ok
           /\ Reads(IF job_id \notin DOMAIN jobs_storage
                    THEN Answer("status", key, job_id, 404, <<"Job nao encontrado">>, Null, "not_run")
                    ELSE Answer("status", key, job_id, 200, <<>>,
                                [job_id |-> job_id, status |-> jobs_storage[job_id].status,
                                 error_message |-> jobs_storage[job_id].error_message],
                                "not_run"))

\* get_scraping_result without the test for a queued job
GetScrapingResultNoQueued(storage, key, job_id, include_raw_data) ==
    IF job_id \notin DOMAIN storage
    THEN Answer("result", key, job_id, 404, <<"Job nao encontrado">>, Null, "not_run")
    ELSE IF storage[job_id].status = "running"
    THEN Answer("result", key, job_id, 202, <<"Job ainda executando">>, Null, "not_run")
    ELSE IF storage[job_id].status = "failed"
    THEN Answer("result", key, job_id, 500,
                <<"Job falhou", storage[job_id].error_message>>, Null, "not_run")
    ELSE Answer("result", key, job_id, 200, <<>>,
                [job_id |-> job_id, status |-> storage[job_id].status,
                 file_path |-> storage[job_id].result_file,
                 data |-> IF include_raw_data /\ Truthy(storage[job_id].data)
                          THEN storage[job_id].data ELSE Null],
                "not_run")

\* get_scraping_result(job_id, include_raw_data)
GetScrapingResult(storage, key, job_id, include_raw_data) ==
    IF job_id \notin DOMAIN storage
    THEN Answer("result", key, job_id, 404, <<"Job nao encontrado">>, Null, "not_run")
    ELSE IF storage[job_id].status = "running"
    THEN Answer("result", key, job_id, 202, <<"Job ainda executando">>, Null, "not_run")
    ELSE IF storage[job_id].status = "queued"
    THEN Answer("result", key, job_id, 202, <<"Job na fila de execucao">>, Null, "not_run")
    ELSE IF storage[job_id].status = "failed"
    THEN Answer("result", key, job_id, 500,
                <<"Job falhou", storage[job_id].error_message>>, Null, "not_run")
    ELSE Answer("result", key, job_id, 200, <<>>,
                [job_id |-> job_id, status |-> storage[job_id].status,
                 file_path |-> storage[job_id].result_file,
                 data |-> IF include_raw_data /\ Truthy(storage[job_id].data)
                          THEN storage[job_id].data ELSE Null],
                "not_run")

\* GET /scraper/result/{job_id}
ScrapingResult ==
    /\ response = Null
    /\ \E key \in Headers, job_id \in JobIds, include_raw_data \in BOOLEAN :
        \/ Rejected("result", key, job_id)
        \/ /\ VerifyApiKey(apiConfig, key).ok
           /\ Reads(GetScrapingResult(jobs_storage, key, job_id, include_raw_data))

\* GET /scraper/jobs
ListJobs ==
    /\ response = Null
    /\ \E key \in Headers :
        \/ Rejected("jobs", key, 0)
        \/ /\ VerifyApiKey(apiConfig, key).ok
           /\ Reads(Answer("jobs", key, 0, 200, <<>>,
                           [total_jobs |-> Cardinality(DOMAIN jobs_storage),
                            jobs |-> [id \in DOMAIN jobs_storage |-> jobs_storage[id].status]],
                           "not_run"))

\* DELETE /scraper/jobs/{job_id}
DeleteJob ==
    /\ response = Null
    /\ \E key \in Headers, job_id \in JobIds :
        \/ Rejected("delete", key, job_id)
        \/ /\ VerifyApiKey(apiConfig, key).ok
           /\ job_id \notin DOMAIN jobs_storage
           /\ Reads(Answer("delete", key, job_id, 404, <<"Job nao encontrado">>, Null, "not_run"))
        \/ /\ VerifyApiKey(apiConfig, key).ok
           /\ job_id \in DOMAIN jobs_storage
           /\ jobs_storage' = [id \in DOMAIN jobs_storage \ {job_id} |-> jobs_storage[id]]
           /\ response' = Answer("delete", key, job_id, 200, <<>>,
                                 [job_id |-> job_id, status |-> jobs_storage[job_id].status],
                                 "not_run")
           /\ UNCHANGED <<tasks, apiConfig, dirVars, orchVars, normVars, scrapeVars>>

\* GET /health
HealthCheck ==
    /\ response = Null
    /\ \E key \in Headers :
        \/ Rejected("health", key, 0)
        \/ /\ VerifyApiKey(apiConfig, key).ok
           /\ Reads(Answer("health", key, 0, 200, <<>>,
                           [active_jobs |-> Cardinality({id \in DOMAIN jobs_storage :
                                                jobs_storage[id].status = "running"}),
                            total_jobs |-> Cardinality(DOMAIN jobs_storage)],
                           "not_run"))

\* GET /, the one endpoint without Depends(verify_api_key)
Root ==
    /\ response = Null
    /\ \E key \in Headers :
        Reads(Answer("root", key, 0, 200, <<>>,
                     [authentication |-> apiConfig.API_ENABLE_AUTH], "not_run"))

\* the answer of a handler is sent; the handlers run one at a time on the
\* event loop
ResponseSent ==
    /\ response # Null
    /\ response' = Null
    /\ UNCHANGED <<jobs_storage, tasks, apiConfig, dirVars, orchVars, normVars, scrapeVars>>

\* a search that takes the earliest consolidated report
GetEarliestResultFile(fs) ==
    IF Glob(fs, "scraper") # {}
    THEN CHOOSE n \in Glob(fs, "scraper") :
            \A m \in Glob(fs, "scraper") : fs[n].ctime <= fs[m].ctime
    ELSE IF GlobAnyPrefix(fs, "") # {} THEN LatestFile(fs, GlobAnyPrefix(fs, ""))
    ELSE Null

\* get_latest_result_file(): the latest consolidated report, else the latest
\* of all *_dados_* files, else None
GetLatestResultFile(fs) ==
    IF Glob(fs, "scraper") # {} THEN LatestFile(fs, Glob(fs, "scraper"))
    ELSE IF GlobAnyPrefix(fs, "") # {} THEN LatestFile(fs, GlobAnyPrefix(fs, ""))
    ELSE Null

\* load_result_data(file_path)
LoadResultData(fs, file_path) == JsonLoad(fs[file_path].content)

\* the subprocess python3 main.py --consolidar has run to its exit
ConsolidarExited(done) ==
    /\ files' = done.files
    /\ nextCtime' = done.ctime

\* what consolidate_data did in a subprocess started on the directory fs: it
\* returned the path of the report, or None because the write failed or
\* because the Consolidator raised
ConsolidateReturned(fs, clock, done) ==
    IF done.consolidated # Null THEN "path"
    ELSE IF ConsolidatedData(fs, clock).ok THEN "write_failed"
    ELSE "raised"

\* POST /scraper/consolidate: the subprocess dies before it did anything, or
\* runs to its exit
ManualConsolidate ==
    /\ response = Null
    /\ \E key \in Headers :
        \/ Rejected("consolidate", key, 0)
        \/ /\ VerifyApiKey(apiConfig, key).ok
           /\ nextCtime <= MaxCtime
           /\ \/ /\ response' = Answer("consolidate", key, 0, 500,
                                         <<"Erro na consolidacao">>, Null, "not_run")
                 /\ UNCHANGED <<files, nextCtime>>
              \/ \E outcome \in WriteOutcomes :
                    \E done \in {ConsolidateData(RunStart(files, nextCtime), now, outcome)} :
                       /\ ConsolidarExited(done)
                       /\ response' = Answer("consolidate", key, 0, 200, <<>>,
                                             [message |-> "Consolidacao executada com sucesso",
                                              result_file |-> GetLatestResultFile(done.files)],
                                             ConsolidateReturned(files, now, done))
           /\ UNCHANGED <<jobs_storage, tasks, apiConfig, now, runs, orchVars, normVars,
                          scrapeVars>>

\* an except clause that stores a failed job under the id of a deleted one
FailedStoresJob(job_id, error_message, task) ==
    /\ jobs_storage' = Update(jobs_storage, [id \in {job_id} |->
                            [job_id |-> job_id, status |-> "failed", sites |-> Sites,
                             completed_at |-> IntV(now),
                             error_message |-> Str(<<error_message>>), result_file |-> Null,
                             data |-> Null]])
    /\ tasks' = [tasks EXCEPT ![job_id] = [task EXCEPT !.pc = "done"]]

\* the except clause of execute_scraping, the task being left as `task`: the
\* job is marked failed with str(e), written as one piece; the update of a
\* deleted job raises KeyError out of the task
Failed(job_id, error_message, task) ==
    IF job_id \in DOMAIN jobs_storage
    THEN /\ jobs_storage' = [jobs_storage EXCEPT ![job_id].status = "failed",
                                                 ![job_id].completed_at = IntV(now),
                                                 ![job_id].error_message =
                                                     Str(<<error_message>>)]
         /\ tasks' = [tasks EXCEPT ![job_id] = [task EXCEPT !.pc = "done"]]
    ELSE /\ tasks' = [tasks EXCEPT ![job_id] = [task EXCEPT !.pc = "crashed"]]
         /\ UNCHANGED jobs_storage

\* execute_scraping up to the start of the scraping subprocess
ExecuteBegins ==
    \E job_id \in DOMAIN tasks :
        /\ tasks[job_id].pc = "queued"
        /\ IF job_id \in DOMAIN jobs_storage
           THEN /\ jobs_storage' = [jobs_storage EXCEPT ![job_id].status = "running"]
                /\ tasks' = [tasks EXCEPT ![job_id].pc = "scraping"]
           ELSE Failed(job_id, "KeyError", tasks[job_id])
        /\ UNCHANGED <<response, apiConfig, dirVars, orchVars, normVars, scrapeVars>>

\* the run of main.py a job asks for: --sites when sites were requested
ScrapingRun(sites, fs, ctime, clock, fault, outcome) ==
    IF sites # <<>> THEN MainSitesLoop(RunStart(fs, ctime), sites, clock, fault)
    ELSE ScrapeAllSites(fs, ctime, clock, fault, outcome)

\* execute_scraping once process.communicate() returned, the run having
\* written raw files for the sites `scraped`: the consolidation subprocess
\* is started, or "Scraping falhou" is raised
ScrapingExited(job_id, returncode, scraped) ==
    IF returncode = 0
    THEN /\ tasks' = [tasks EXCEPT ![job_id].pc = "consolidating",
                                   ![job_id].scraping = returncode,
                                   ![job_id].scraped = scraped]
         /\ UNCHANGED jobs_storage
    ELSE Failed(job_id, "Scraping falhou",
                [tasks[job_id] EXCEPT !.scraping = returncode, !.scraped = scraped])

\* the scraping subprocess of a job dies before it did anything, or runs to
\* its exit, and the task goes on
ScrapingExits ==
    \E job_id \in DOMAIN tasks :
        /\ tasks[job_id].pc = "scraping"
        /\ \/ /\ ScrapingExited(job_id, 1, {})
              /\ UNCHANGED <<files, nextCtime>>
           \/ \E fault \in Faults, outcome \in WriteOutcomes :
                 \E done \in {ScrapingRun(tasks[job_id].sites, files, nextCtime, now,
                                          fault, outcome)} :
                    /\ files' = done.files
                    /\ nextCtime' = done.ctime
                    /\ ScrapingExited(job_id, IF done.raised THEN 1 ELSE 0,
                                      DOMAIN done.results)
        /\ UNCHANGED <<response, apiConfig, now, runs, orchVars, normVars, scrapeVars>>

\* the consolidation subprocess of a job dies before it did anything, or
\* runs to its exit; the task is still suspended in communicate()
ConsolidationExits ==
    \E job_id \in DOMAIN tasks :
        /\ tasks[job_id].pc = "consolidating"
        /\ \/ /\ tasks' = [tasks EXCEPT ![job_id].pc = "consolidated",
                                         ![job_id].consolidation = 1]
              /\ UNCHANGED <<files, nextCtime>>
           \/ \E outcome \in WriteOutcomes :
                 \E done \in {ConsolidateData(RunStart(files, nextCtime), now, outcome)} :
                    /\ ConsolidarExited(done)
                    /\ tasks' = [tasks EXCEPT
                                    ![job_id].pc = "consolidated",
                                    ![job_id].consolidation = 0,
                                    ![job_id].consolidated =
                                        ConsolidateReturned(files, now, done),
                                    ![job_id].wrote =
                                        IF done.consolidated # Null THEN nextCtime ELSE 0]
        /\ UNCHANGED <<jobs_storage, response, apiConfig, now, runs, orchVars, normVars,
                       scrapeVars>>

\* execute_scraping once consolidate_process.communicate() returned
ExecuteEnds ==
    \E job_id \in DOMAIN tasks :
        /\ tasks[job_id].pc = "consolidated"
        /\ IF tasks[job_id].consolidation # 0
           THEN Failed(job_id, "Consolidacao falhou", tasks[job_id])
           ELSE IF GetLatestResultFile(files) = Null
           THEN Failed(job_id, "Arquivo consolidado nao encontrado", tasks[job_id])
           ELSE IF job_id \notin DOMAIN jobs_storage
           THEN Failed(job_id, "KeyError", tasks[job_id])
           ELSE /\ jobs_storage' =
                      [jobs_storage EXCEPT
                          ![job_id].status = "completed",
                          ![job_id].completed_at = IntV(now),
                          ![job_id].result_file = GetLatestResultFile(files),
                          ![job_id].data = LoadResultData(files, GetLatestResultFile(files))]
                /\ tasks' = [tasks EXCEPT
                                ![job_id].pc = "done",
                                ![job_id].read = files[GetLatestResultFile(files)].ctime]
        /\ UNCHANGED <<response, apiConfig, dirVars, orchVars, normVars, scrapeVars>>

\* the server as it starts: the configuration read from the environment, no
\* job, an empty results directory
InitApi ==
    /\ NormIdle /\ ScrapeIdle
    /\ files = EmptyDict /\ now = 0 /\ nextCtime = 1 /\ runs = <<>>
    /\ configured \in {c \in SUBSET SiteSet : Cardinality(c) <= MaxConfigured}
    /\ orchRuns = <<>>
    /\ apiConfig \in {[API_ENABLE_AUTH |-> FALSE, API_SECRET_KEY |-> EmptyStr],
                     [API_ENABLE_AUTH |-> TRUE, API_SECRET_KEY |-> EmptyStr],
                     [API_ENABLE_AUTH |-> TRUE, API_SECRET_KEY |-> Secret]}
    /\ jobs_storage = EmptyDict
    /\ tasks = EmptyDict
    /\ response = Null

NextApi ==
    \/ StartScraping
    \/ GetScrapingStatus
    \/ ScrapingResult
    \/ ListJobs
    \/ DeleteJob
    \/ ManualConsolidate
    \/ HealthCheck
    \/ Root
    \/ ResponseSent
    \/ ExecuteBegins
    \/ ScrapingExits
    \/ ConsolidationExits
    \/ ExecuteEnds

SpecApi == InitApi /\ [][NextApi]_vars

\* the server of a config.env that names no hotel
InitJobs == InitApi /\ configured = {}

SpecJobs == InitJobs /\ [][NextApi]_vars

\* the same server when the event loop resumes every task that can go on
\* and every subprocess terminates
SpecJobsFair ==
    /\ SpecJobs
    /\ WF_vars(ExecuteBegins) /\ WF_vars(ScrapingExits)
    /\ WF_vars(ConsolidationExits) /\ WF_vars(ExecuteEnds)


----------------------------------------------------------------------------
(* Background tasks of several jobs on one results directory *)

\* the wall clock passes to the next second after a consolidation wrote
ServerTick ==
    /\ now < Cardinality({id \in DOMAIN tasks : tasks[id].wrote # 0})
    /\ now' = now + 1
    /\ UNCHANGED <<files, nextCtime, runs, orchVars, normVars, scrapeVars, apiVars>>

\* the site lists of the requests that start_scraping accepts
AcceptedSites == {sites \in RequestSites : InvalidSites(sites) = <<>>}

\* a server without authentication, of a config.env that names no hotel,
\* that accepted one job more than MaxJobs, none of which has started
InitRace ==
    /\ NormIdle /\ ScrapeIdle
    /\ files = EmptyDict /\ now = 0 /\ nextCtime = 1 /\ runs = <<>>
    /\ configured = {}
    /\ orchRuns = <<>>
    /\ apiConfig = [API_ENABLE_AUTH |-> FALSE, API_SECRET_KEY |-> EmptyStr]
    /\ \E asked \in [1..(MaxJobs + 1) -> AcceptedSites] :
          /\ jobs_storage = [id \in DOMAIN asked |-> QueuedJob(id, asked[id])]
          /\ tasks = [id \in DOMAIN asked |-> QueuedTask(asked[id])]
    /\ response = Null

NextRace ==
    \/ ExecuteBegins
    \/ ScrapingExits
    \/ ConsolidationExits
    \/ ExecuteEnds
    \/ ServerTick

SpecRace == InitRace /\ [][NextRace]_vars

\* a server without authentication, of a config.env with hotels for some
\* sites, that accepted one job on an empty results directory
InitAlone ==
    /\ NormIdle /\ ScrapeIdle
    /\ files = EmptyDict /\ now = 0 /\ nextCtime = 1 /\ runs = <<>>
    /\ configured \in {c \in SUBSET SiteSet : c # {} /\ Cardinality(c) <= MaxConfigured}
    /\ orchRuns = <<>>
    /\ apiConfig = [API_ENABLE_AUTH |-> FALSE, API_SECRET_KEY |-> EmptyStr]
    /\ \E sites \in AcceptedSites :
          /\ jobs_storage = [id \in {1} |-> QueuedJob(id, sites)]
          /\ tasks = [id \in {1} |-> QueuedTask(sites)]
    /\ response = Null

SpecAlone == InitAlone /\ [][NextRace]_vars

\* the same server with hotels for one site more, on which main.py --site
\* is also run once from the command line
InitEarlier ==
    /\ NormIdle /\ ScrapeIdle
    /\ files = EmptyDict /\ now = 0 /\ nextCtime = 1 /\ runs = <<>>
    /\ configured \in {c \in SUBSET SiteSet :
                            c # {} /\ Cardinality(c) <= MaxConfigured + 1}
    /\ orchRuns = <<>>
    /\ apiConfig = [API_ENABLE_AUTH |-> FALSE, API_SECRET_KEY |-> EmptyStr]
    /\ \E sites \in AcceptedSites :
          /\ jobs_storage = [id \in {1} |-> QueuedJob(id, sites)]
          /\ tasks = [id \in {1} |-> QueuedTask(sites)]
    /\ response = Null

NextEarlier ==
    \/ RunSite(1)
    \/ ExecuteBegins
    \/ ScrapingExits
    \/ ConsolidationExits
    \/ ExecuteEnds
    \/ ServerTick

SpecEarlier == InitEarlier /\ [][NextEarlier]_vars


----------------------------------------------------------------------------
(* DataConsolidator.load_site_data on a directory that fills *)

MaxLoadFiles == 2   \* files written into the directory

\* a file of a site or a report is written: it holds a raw object, or what
\* json.load rejects
FileAppears ==
    /\ nextCtime <= MaxLoadFiles
    /\ \E prefix \in SiteSet \cup {"scraper"},
          content \in {Unparsable, Json(EmptyDict)} :
          files' = Update(files, [n \in {Path(prefix, "dados", now)} |->
                              [ctime |-> nextCtime,
                               content |-> IF content = Unparsable \/ prefix = "scraper"
                                           THEN content
                                           ELSE Json(RawObject(prefix,
                                                               <<ScrapedHotel(prefix)>>))]])
    /\ nextCtime' = nextCtime + 1
    /\ UNCHANGED <<now, runs, normVars, restVars>>

\* the wall clock passes to the next second after a write
LoadTick ==
    /\ now < nextCtime - 1
    /\ now' = now + 1
    /\ UNCHANGED <<files, nextCtime, runs, normVars, restVars>>

\* load_site_data(site) is called and returns
LoadSiteDataReturns ==
    /\ \E site \in SiteSet :
          mCall' = [fn |-> "load_site_data", site |-> site,
                    ret |-> LoadSiteData(files, site)]
    /\ UNCHANGED <<nPc, nSite, nRaw, nOut, dirVars, restVars>>

InitLoad ==
    /\ NormIdle /\ ScrapeIdle /\ OrchIdle /\ ApiIdle
    /\ files = EmptyDict /\ now = 0 /\ nextCtime = 1 /\ runs = <<>>

NextLoad == FileAppears \/ LoadTick \/ LoadSiteDataReturns

SpecLoad == InitLoad /\ [][NextLoad]_vars


----------------------------------------------------------------------------
(* HotelScrapingOrchestrator._get_hotels_config_for_site and _format_hotel_name *)

MaxConfigLines == 3   \* lines of config.env

\* str.upper() of one character
UpperChar(c) ==
    IF \E i \in 1..Len(LowerChars) : LowerChars[i] = c
    THEN UpperChars[CHOOSE i \in 1..Len(LowerChars) : LowerChars[i] = c]
    ELSE c

\* str.startswith(prefix) and str.endswith(suffix)
StartsWith(s, prefix) == Len(s) >= Len(prefix) /\ SubSeq(s, 1, Len(prefix)) = prefix
EndsWith(s, suffix) ==
    Len(s) >= Len(suffix) /\ SubSeq(s, Len(s) - Len(suffix) + 1, Len(s)) = suffix

\* str.split(): the words between blanks, from the word that starts in `word`
RECURSIVE SplitFrom(_, _)
SplitFrom(s, word) ==
    IF s = <<>> THEN IF word = <<>> THEN <<>> ELSE <<word>>
    ELSE IF s[1] = " "
    THEN IF word = <<>> THEN SplitFrom(Tail(s), <<>>)
         ELSE <<word>> \o SplitFrom(Tail(s), <<>>)
    ELSE SplitFrom(Tail(s), Append(word, s[1]))

Split(s) == SplitFrom(s, <<>>)

\* ' '.join(words)
RECURSIVE Join(_)
Join(words) ==
    IF words = <<>> THEN <<>>
    ELSE IF Len(words) = 1 THEN words[1]
    ELSE words[1] \o <<" ">> \o Join(Tail(words))

\* str.capitalize() of a word
Capitalize(word) ==
    IF word = <<>> THEN word ELSE <<UpperChar(word[1])>> \o Lower(Tail(word))

\* the words _format_hotel_name leaves in lower case
Particles == {<<"d", "e">>, <<"d", "a">>, <<"d", "o">>, <<"d", "a", "s">>, <<"d", "o", "s">>, <<"e">>}

\* the starts after which no "Hotel " is put before the name
KnownStarts == {<<"h", "o", "t", "e", "l">>, <<"m", "a", "r", "a", "g", "o", "g", "i">>, <<"p", "o", "u", "s", "a", "d", "a">>, <<"r", "e", "s", "o", "r", "t">>}

FormattedWords(words) ==
    [i \in 1..Len(words) |->
        IF words[i] \in Particles THEN words[i] ELSE Capitalize(words[i])]

HotelSpace == <<"H", "o", "t", "e", "l", " ">>

\* the last step of _format_hotel_name
WithHotel(formatted_name) ==
    IF \E start \in KnownStarts : StartsWith(Lower(formatted_name), start)
    THEN formatted_name
    ELSE HotelSpace \o formatted_name

\* _format_hotel_name(hotel_key)
FormatHotelName(hotel_key) ==
    WithHotel(Join(FormattedWords(Split(Replace(Lower(hotel_key), <<"_">>, <<" ">>)))))

\* f"{site_upper}_"
SitePrefix(site) ==
    IF site = "booking" THEN <<"B", "O", "O", "K", "I", "N", "G", "_">>
    ELSE IF site = "google" THEN <<"G", "O", "O", "G", "L", "E", "_">>
    ELSE IF site = "decolar" THEN <<"D", "E", "C", "O", "L", "A", "R", "_">>
    ELSE <<"T", "R", "I", "P", "A", "D", "V", "I", "S", "O", "R", "_">>

excluded_keys ==
    {<<"G", "O", "O", "G", "L", "E", "_", "A", "P", "I", "_", "K", "E", "Y">>,
     <<"G", "O", "O", "G", "L", "E", "_", "S", "E", "R", "V", "I", "C", "E", "_", "A", "C", "C", "O", "U", "N", "T", "_", "J", "S", "O", "N">>,
     <<"G", "O", "O", "G", "L", "E", "_", "A", "P", "I", "_", "T", "I", "M", "E", "O", "U", "T">>,
     <<"G", "O", "O", "G", "L", "E", "_", "A", "P", "I", "_", "D", "E", "L", "A", "Y">>}

UnderscoreId == <<"_", "I", "D">>
UnderscoreName == <<"_", "N", "A", "M", "E">>

\* the condition under which a key of the configuration is taken as a hotel
IsHotelKey(key, site) ==
    /\ StartsWith(key, SitePrefix(site))
    /\ ~EndsWith(key, UnderscoreId)
    /\ ~EndsWith(key, UnderscoreName)
    /\ key \notin excluded_keys

\* hotel_key = key.replace(f"{site_upper}_", "")
HotelKey(key, site) == Replace(key, SitePrefix(site), <<>>)

\* name_key = f"{site_upper}_{hotel_key}_NAME"
NameKey(key, site) == SitePrefix(site) \o HotelKey(key, site) \o UnderscoreName

\* the name under which the hotel of a key is stored
HotelName(config, key, site) ==
    IF NameKey(key, site) \in DOMAIN config THEN config[NameKey(key, site)].c
    ELSE FormatHotelName(HotelKey(key, site))

\* the loop of _get_hotels_config_for_site over the keys in the order of the file
RECURSIVE HotelsConfigLoop(_, _, _, _)
HotelsConfigLoop(config, keys, site, hotels_config) ==
    IF keys = <<>> THEN hotels_config
    ELSE HotelsConfigLoop(config, Tail(keys), site,
            IF IsHotelKey(keys[1], site)
            THEN Update(hotels_config,
                        [name \in {HotelName(config, keys[1], site)} |-> config[keys[1]]])
            ELSE hotels_config)

\* _get_hotels_config_for_site(site), self.config read from the lines `keys`
GetHotelsConfigForSite(config, keys, site) == HotelsConfigLoop(config, keys, site, EmptyDict)

\* keys a config.env may hold
ConfigKeys ==
    {<<"B", "O", "O", "K", "I", "N", "G", "_", "S", "O", "L">>,
     <<"B", "O", "O", "K", "I", "N", "G", "_", "H", "O", "T", "E", "L", "_", "S", "O", "L">>,
     <<"B", "O", "O", "K", "I", "N", "G", "_", "S", "O", "L", "_", "N", "A", "M", "E">>,
     <<"B", "O", "O", "K", "I", "N", "G", "_", "S", "O", "L", "_", "I", "D">>,
     <<"G", "O", "O", "G", "L", "E", "_", "S", "O", "L">>,
     <<"G", "O", "O", "G", "L", "E", "_", "A", "P", "I", "_", "K", "E", "Y">>,
     <<"G", "O", "O", "G", "L", "E", "_", "M", "A", "R", "_", "D", "O", "_", "G", "O", "O", "G", "L", "E", "_", "S", "O", "L">>}

\* the value config.env gives a key: a display name for a _NAME key, else a
\* text of its own
ConfigValue(key) ==
    IF EndsWith(key, UnderscoreName) THEN Str(<<"S", "o", "l", " ", "M", "a", "r">>)
    ELSE Str(<<"v">> \o key)

\* the files of at most MaxConfigLines lines, each with a key of its own
ConfigFiles ==
    UNION {{keys \in [1..n -> ConfigKeys] : \A i, j \in 1..n : i # j => keys[i] # keys[j]} :
              n \in 1..MaxConfigLines}

\* _load_config(): the dict of the lines of the file
LoadConfig(keys) == [key \in {keys[i] : i \in 1..Len(keys)} |-> ConfigValue(key)]

\* _get_hotels_config_for_site(site) is called on a configuration and returns
GetHotelsConfigReturns ==
    /\ mCall = Null
    /\ \E keys \in ConfigFiles, site \in {"booking", "google"} :
          mCall' = [fn |-> "_get_hotels_config_for_site", site |-> site, keys |-> keys,
                    ret |-> GetHotelsConfigForSite(LoadConfig(keys), keys, site)]
    /\ UNCHANGED <<nPc, nSite, nRaw, nOut, dirVars, restVars>>

InitConfig == NormIdle /\ DirIdle /\ ScrapeIdle /\ OrchIdle /\ ApiIdle

NextConfig == GetHotelsConfigReturns

SpecConfig == InitConfig /\ [][NextConfig]_vars

----------------------------------------------------------------------------
(* Claims about generate_consolidated_json, under SpecReport and Spec *)

RunIdx == 1..Len(runs)

\* the call built its report (it may still have failed to write it)
Built(i) == runs[i].outcome # "raised"

IsRawName(n) == n.prefix \in SiteSet /\ n.mid = "dados"

HasRawFile(dir, site) == \E n \in DOMAIN dir : n.prefix = site /\ n.mid = "dados"

\* every raw file holds an object of the shape {metadata, hoteis} of spec.md section 6
RawFilesWellFormed(dir) ==
    \A n \in DOMAIN dir :
        IsRawName(n) => dir[n].content.kind = "json" /\ "hoteis" \in DOMAIN dir[n].content.d

RECURSIVE HotelCountFrom(_, _)
HotelCountFrom(sites, i) ==
    IF i > Len(Sites) THEN 0
    ELSE (IF Sites[i] \in DOMAIN sites THEN Len(sites[Sites[i]].hoteis) ELSE 0)
         + HotelCountFrom(sites, i + 1)

RECURSIVE ReviewsIn(_)
ReviewsIn(hotels) == IF hotels = <<>> THEN 0 ELSE hotels[1].review_count.n + ReviewsIn(Tail(hotels))

RECURSIVE ReviewCountFrom(_, _)
ReviewCountFrom(sites, i) ==
    IF i > Len(Sites) THEN 0
    ELSE (IF Sites[i] \in DOMAIN sites THEN ReviewsIn(sites[Sites[i]].hoteis) ELSE 0)
         + ReviewCountFrom(sites, i + 1)

\* the ratings of all hotels of all sites of a report, as one sequence, in hundredths
RECURSIVE RatingsFrom(_, _)
RatingsFrom(sites, i) ==
    IF i > Len(Sites) THEN <<>>
    ELSE (IF Sites[i] \in DOMAIN sites
          THEN [k \in 1..Len(sites[Sites[i]].hoteis) |-> sites[Sites[i]].hoteis[k].rating.h]
          ELSE <<>>)
         \o RatingsFrom(sites, i + 1)

RECURSIVE SumSeq(_)
SumSeq(xs) == IF xs = <<>> THEN 0 ELSE xs[1] + SumSeq(Tail(xs))

\* r is sum/n rounded to the nearest hundredth, a tie going to the even one
IsRoundedMean(r, sum, n) ==
    /\ 2 * r * n - 2 * sum <= n
    /\ 2 * sum - 2 * r * n <= n
    /\ (2 * r * n - 2 * sum = n \/ 2 * sum - 2 * r * n = n) => r % 2 = 0

\* C1: when exactly the sites of a set S have a raw file (each a well-formed
\* raw file), the report has a sites mapping whose key set is S and
\* total_sites = |S|; a site without a raw file yields no entry and no failure.
C1_SitesAreThoseWithRawFile ==
    \A i \in RunIdx :
        RawFilesWellFormed(files) =>
            /\ Built(i)
            /\ DOMAIN runs[i].data.sites = {site \in SiteSet : HasRawFile(files, site)}
            /\ runs[i].data.metadata.total_sites =
                  IntV(Cardinality({site \in SiteSet : HasRawFile(files, site)}))

\* C2: a failure in one site's data (unreadable or invalid file, or a record
\* whose rating or review count cannot be coerced) never aborts the call:
\* every other site that loads and normalizes is in the report.
C2_SiteFailureNeverAborts ==
    \A i \in RunIdx :
        /\ Built(i)
        /\ \A site \in SiteSet :
              (/\ Truthy(LoadSiteData(files, site))
               /\ NormalizeSiteData(LoadSiteData(files, site).d, site).ok)
                  => site \in DOMAIN runs[i].data.sites

\* C3: in every report, metadata.total_hoteis is the sum of the lengths of
\* the sites' hoteis lists and metadata.total_avaliacoes the sum of their
\* review_count; in each site entry total_hoteis = sucesso = Len(hoteis).
C3_TotalsAreSums ==
    \A i \in RunIdx :
        Built(i) =>
            LET data == runs[i].data
            IN  /\ data.metadata.total_hoteis = IntV(HotelCountFrom(data.sites, 1))
                /\ data.metadata.total_avaliacoes = IntV(ReviewCountFrom(data.sites, 1))
                /\ \A site \in DOMAIN data.sites :
                      /\ data.sites[site].metadata.total_hoteis
                            = IntV(Len(data.sites[site].hoteis))
                      /\ data.sites[site].metadata.extraction_stats.sucesso
                            = IntV(Len(data.sites[site].hoteis))

\* one TripAdvisor hotel with 89 reviews and one Booking hotel with 1200: 2 and 1289
C3_Witness ==
    \E i \in RunIdx :
        /\ Built(i)
        /\ DOMAIN runs[i].data.sites = {"tripadvisor", "booking"}
        /\ Len(runs[i].data.sites["tripadvisor"].hoteis) = 1
        /\ runs[i].data.sites["tripadvisor"].hoteis[1].review_count = IntV(89)
        /\ Len(runs[i].data.sites["booking"].hoteis) = 1
        /\ runs[i].data.sites["booking"].hoteis[1].review_count = IntV(1200)
        /\ runs[i].data.metadata.total_hoteis = IntV(2)
        /\ runs[i].data.metadata.total_avaliacoes = IntV(1289)

\* C4: rating_medio_geral is the mean, rounded to 2 decimals, of the ratings
\* of all hotels of all sites taken as one sequence.
C4_GlobalMeanIsPerHotel ==
    \A i \in RunIdx :
        Built(i) =>
            LET ratings == RatingsFrom(runs[i].data.sites, 1)
                mean == runs[i].data.metadata.rating_medio_geral
            IN  ratings # <<>> =>
                    /\ mean.t = "float"
                    /\ IsRoundedMean(mean.h, SumSeq(ratings), Len(ratings))

\* a report of a site with one hotel and a site with two, whose global mean
\* is not the mean of the two sites' rating_medio
C4_Witness ==
    \E i \in RunIdx :
        /\ Built(i)
        /\ \E a, b \in DOMAIN runs[i].data.sites :
              /\ DOMAIN runs[i].data.sites = {a, b}
              /\ Len(runs[i].data.sites[a].hoteis) = 1
              /\ Len(runs[i].data.sites[b].hoteis) = 2
              /\ LET ma == runs[i].data.sites[a].metadata.extraction_stats.rating_medio.h
                     mb == runs[i].data.sites[b].metadata.extraction_stats.rating_medio.h
                     g == runs[i].data.metadata.rating_medio_geral.h
                 IN  2 * g - (ma + mb) > 1 \/ (ma + mb) - 2 * g > 1

\* no site that loads holds a hotel
NoHotelAnywhere(dir) ==
    \A site \in SiteSet :
        Truthy(LoadSiteData(dir, site)) => Get(LoadSiteData(dir, site).d, "hoteis", <<>>) = <<>>

\* C5: an empty hotel sequence aggregates to rating mean 0 and review sum 0
\* without a fault, for a site whose raw file holds no hotel and for the
\* report of a directory in which no site holds a hotel.
C5_EmptyAggregatesToZero ==
    \A i \in RunIdx :
        /\ NoHotelAnywhere(files) =>
              /\ Built(i)
              /\ runs[i].data.metadata.rating_medio_geral = IntV(0)
              /\ runs[i].data.metadata.total_avaliacoes = IntV(0)
        /\ Built(i) =>
              \A site \in DOMAIN runs[i].data.sites :
                  runs[i].data.sites[site].hoteis = <<>> =>
                      /\ runs[i].data.sites[site].metadata.extraction_stats.rating_medio = IntV(0)
                      /\ runs[i].data.sites[site].metadata.extraction_stats.total_avaliacoes
                            = IntV(0)

\* a directory whose only raw file holds hoteis: [], and the report of it on disk
C5_Witness ==
    \E i \in RunIdx :
        /\ runs[i].outcome = "path"
        /\ NoHotelAnywhere(files)
        /\ DOMAIN runs[i].data.sites # {}
        /\ runs[i].path \in DOMAIN files
        /\ files[runs[i].path].content = Json(runs[i].data)
        /\ runs[i].data.metadata.rating_medio_geral = IntV(0)

\* no call changes, adds or removes a raw file
RawFilesUnchanged ==
    /\ {n \in DOMAIN files' : IsRawName(n)} = {n \in DOMAIN files : IsRawName(n)}
    /\ \A n \in DOMAIN files : IsRawName(n) => files'[n] = files[n]

\* a report without its timestamp
WithoutTimestamp(data) ==
    [data EXCEPT !.metadata = [k \in DOMAIN data.metadata \ {"timestamp_consolidacao"} |->
                                  data.metadata[k]]]

\* C10: the calls of a sequence leave the raw files as they are, and any two
\* of them build reports that are identical except for the timestamp; the
\* report file a call wrote is not an input of a later one.
C10_RerunSameReport ==
    [][/\ RawFilesUnchanged
       /\ \A i, j \in 1..Len(runs') :
             (i < j /\ runs'[i].outcome # "raised" /\ runs'[j].outcome # "raised") =>
                 WithoutTimestamp(runs'[i].data) = WithoutTimestamp(runs'[j].data)]_vars

\* two calls in different seconds, both written, on a directory with a site that loads
C10_Witness ==
    /\ Len(runs) = 2
    /\ runs[1].outcome = "path"
    /\ runs[2].outcome = "path"
    /\ runs[1].path # runs[2].path
    /\ files[runs[1].path].ctime < files[runs[2].path].ctime
    /\ DOMAIN runs[2].data.sites # {}
    /\ runs[2].data.metadata.total_hoteis # IntV(0)
    /\ files[runs[1].path].content.kind = "json"
    /\ files[runs[2].path].content.kind = "json"
    /\ WithoutTimestamp(files[runs[1].path].content.d)
          = WithoutTimestamp(files[runs[2].path].content.d)
    /\ runs[1].data.metadata.timestamp_consolidacao
          # runs[2].data.metadata.timestamp_consolidacao

----------------------------------------------------------------------------
(* Claims about the output files of the Consolidator, under SpecOutputs *)

\* an output file of the Consolidator: a report or a normalised site file
IsOutputName(n) == n.mid = "normalizado" \/ (n.prefix = "scraper" /\ n.mid = "dados")

\* the files the call that has just returned reports as written
WrittenBy(run) ==
    IF run.outcome = "path" THEN {run.path}
    ELSE IF run.outcome = "updated" THEN {run.data[site] : site \in DOMAIN run.data}
    ELSE {}

\* C11: outputs are append-only: a call that succeeds creates files that did
\* not exist before it, and no call changes the content of an output file
\* written before, two calls within the same clock second included.
C11_OutputsAppendOnly ==
    [][/\ \A n \in DOMAIN files :
             IsOutputName(n) => n \in DOMAIN files' /\ files'[n].content = files[n].content
       /\ Len(runs') > Len(runs) =>
             \A n \in WrittenBy(runs'[Len(runs')]) : n \notin DOMAIN files]_vars

----------------------------------------------------------------------------
(* Claims about the site adapters, under SpecScrape and SpecFallback *)

\* C15: scrape_multiple_hotels of every adapter returns one record for every
\* hotel of its input mapping, a fallback record where the hotel failed.
C15_OneRecordPerHotel ==
    sResults # Null => Len(sResults.l) = Len(sCall.hotels)

\* C16: two fallback generations of the same adapter for the same hotel
\* name yield the same rating and the same review count, whatever is drawn
\* between them; for booking, google and decolar.
C16_FallbackDeterministicPerName ==
    \A i, j \in 1..Len(fallbacks) :
        (fallbacks[i].site = fallbacks[j].site /\ fallbacks[i].key = fallbacks[j].key) =>
            /\ fallbacks[i].rating = fallbacks[j].rating
            /\ fallbacks[i].reviews = fallbacks[j].reviews

----------------------------------------------------------------------------
(* Claims about the Orchestrator, under SpecOrch and SpecOneRun *)

\* the positions of the events of a kind in a run
EventsOf(run, kind) == {k \in 1..Len(run.events) : run.events[k].e = kind}

\* the files a run wrote as raw files of its sites
WrittenRaw(run) == {run.events[k].path : k \in EventsOf(run, "write")}

\* C17: in scrape_all_sites every site is scraped and its raw file written
\* before the Consolidator is invoked; a raw file is deleted only after the
\* Consolidator returned a report path, none when it returned None; and the
\* files that disappear are raw files this run wrote, never a report or a
\* file the run did not write.
C17_ScrapeConsolidateCleanup ==
    [][(Len(orchRuns') > Len(orchRuns) /\ orchRuns'[Len(orchRuns')].mode = "all") =>
          LET run == orchRuns'[Len(orchRuns')]
          IN  /\ \A c \in EventsOf(run, "consolidate") :
                    \A k \in EventsOf(run, "scrape") \cup EventsOf(run, "write") : k < c
              /\ \A d \in EventsOf(run, "delete") :
                    /\ \E c \in EventsOf(run, "consolidate") :
                          c < d /\ run.events[c].ret # Null
                    /\ run.events[d].path \in WrittenRaw(run)
                    /\ IsRawName(run.events[d].path)
              /\ \A n \in DOMAIN files :
                    n \notin DOMAIN files' => n \in WrittenRaw(run) /\ IsRawName(n)]_vars

\* an all-sites run after a --site run of an earlier second: it wrote a raw
\* file, got a report path and deleted its own raw file; the raw file of the
\* earlier run and the report are in the directory
C17_Witness ==
    /\ Len(orchRuns) = 2
    /\ orchRuns[1].mode = "site"
    /\ orchRuns[2].mode = "all"
    /\ EventsOf(orchRuns[2], "delete") # {}
    /\ WrittenRaw(orchRuns[1]) # {}
    /\ WrittenRaw(orchRuns[1]) \cap WrittenRaw(orchRuns[2]) = {}
    /\ WrittenRaw(orchRuns[1]) \subseteq DOMAIN files
    /\ WrittenRaw(orchRuns[2]) \cap DOMAIN files = {}
    /\ \E c \in EventsOf(orchRuns[2], "consolidate") :
          orchRuns[2].events[c].ret \in DOMAIN files

\* C18: no exception aborts the processing of sibling sites: in an all-sites
\* run and in a --sites run every requested site is scraped, whatever
\* scraping or saving another site raised.
C18_SiblingSitesStillScraped ==
    \A r \in 1..Len(orchRuns) :
        \A i \in 1..Len(orchRuns[r].requested) :
            \E k \in EventsOf(orchRuns[r], "scrape") :
                orchRuns[r].events[k].site = orchRuns[r].requested[i]

\* the raw files whose hotels went into the report a run wrote
InputsOf(run) ==
    UNION {run.events[c].inputs : c \in {k \in EventsOf(run, "consolidate") :
                                             run.events[k].ret # Null}}

\* C19: each raw per-site file is consumed exactly once by the Consolidator:
\* over any sequence of all-sites, --site, --sites and --consolidar runs no
\* raw file contributes its hotels to more than one consolidated report.
C19_RawFileConsumedOnce ==
    \A r1, r2 \in 1..Len(orchRuns) :
        r1 # r2 => InputsOf(orchRuns[r1]) \cap InputsOf(orchRuns[r2]) = {}

----------------------------------------------------------------------------
(* Claims about the job API, under SpecJobs and SpecApi *)

\* the changes of status the lifecycle allows
Lifecycle == {<<"queued", "running">>, <<"running", "completed">>, <<"running", "failed">>}

\* C12: a job is created as queued, under an id no job had before; its
\* status then only changes from queued to running and from running to
\* completed or to failed, so it never moves backwards, never skips
\* running, and never changes once it is completed or failed.
C12_StatusFollowsLifecycle ==
    [][\A id \in DOMAIN jobs_storage' :
          IF id \in DOMAIN jobs_storage
          THEN \/ jobs_storage'[id].status = jobs_storage[id].status
               \/ <<jobs_storage[id].status, jobs_storage'[id].status>> \in Lifecycle
          ELSE jobs_storage'[id].status = "queued" /\ id \notin DOMAIN tasks]_vars

\* a job has been through queued and running and is completed with the
\* report of its consolidation
C12_Witness ==
    \E id \in DOMAIN jobs_storage :
        /\ jobs_storage[id].status = "completed"
        /\ tasks[id].pc = "done"
        /\ jobs_storage[id].data # Null

\* C13: GET /scraper/result/{id} answers 404 exactly when the id is not in
\* the job table, 202 exactly when the job is queued or running, 500 with
\* the job's error message exactly when it is failed, and 200 exactly when it
\* is completed, with no other data than the data stored for the job; the
\* request changes neither the job table nor the tasks nor the directory.
C13_ResultFollowsStatus ==
    [][(/\ response' # response
        /\ response' # Null
        /\ response'.endpoint = "result"
        /\ VerifyApiKey(apiConfig, response'.key).ok) =>
          /\ jobs_storage' = jobs_storage /\ tasks' = tasks /\ files' = files
          /\ (response'.status_code = 404) <=> (response'.job_id \notin DOMAIN jobs_storage)
          /\ (response'.status_code = 202) <=>
                (/\ response'.job_id \in DOMAIN jobs_storage
                 /\ jobs_storage[response'.job_id].status \in {"queued", "running"})
          /\ (response'.status_code = 500) <=>
                (/\ response'.job_id \in DOMAIN jobs_storage
                 /\ jobs_storage[response'.job_id].status = "failed")
          /\ (response'.status_code = 500) =>
                response'.detail[2] = jobs_storage[response'.job_id].error_message
          /\ (response'.status_code = 200) <=>
                (/\ response'.job_id \in DOMAIN jobs_storage
                 /\ jobs_storage[response'.job_id].status = "completed")
          /\ (response'.status_code = 200) =>
                response'.body.data \in {Null, jobs_storage[response'.job_id].data}
          /\ (response'.status_code # 200) => response'.body = Null]_vars

\* the result of a completed job has been read with its data
C13_Witness ==
    /\ response # Null
    /\ response.endpoint = "result"
    /\ response.status_code = 200
    /\ response.body.data # Null
    /\ response.job_id \in DOMAIN jobs_storage
    /\ response.body.data = jobs_storage[response.job_id].data

\* C14: a write failure of the consolidated report is never presented as
\* success: the job whose consolidation could not write the report ends
\* failed, and POST /scraper/consolidate answers 500 when its consolidation
\* could not write the report.
C14_WriteFailureIsReported ==
    /\ \A id \in DOMAIN tasks \cap DOMAIN jobs_storage :
          (tasks[id].pc = "done" /\ tasks[id].consolidated = "write_failed") =>
              jobs_storage[id].status = "failed"
    /\ (/\ response # Null
        /\ response.endpoint = "consolidate"
        /\ response.consolidated = "write_failed") => response.status_code = 500

\* the endpoints declared with Depends(verify_api_key)
Protected == {"start", "status", "result", "jobs", "delete", "consolidate", "health"}

\* C20: with authentication enabled a request to a protected endpoint whose
\* X-API-Key is missing or differs from the secret is answered 401, or 500
\* when no secret is configured, with no body, and changes neither the job
\* table nor the tasks nor the directory; with authentication disabled no
\* request is answered 401 whatever its header.
C20_AuthGuardsEveryEndpoint ==
    [][(response' # response /\ response' # Null /\ response'.endpoint \in Protected) =>
          IF apiConfig.API_ENABLE_AUTH
          THEN (response'.key = Null \/ response'.key # apiConfig.API_SECRET_KEY) =>
                  /\ response'.status_code \in
                        {401} \cup (IF apiConfig.API_SECRET_KEY = EmptyStr THEN {500} ELSE {})
                  /\ response'.body = Null
                  /\ jobs_storage' = jobs_storage /\ tasks' = tasks /\ files' = files
          ELSE /\ response'.status_code # 401
               /\ response'.detail \notin {<<"API key obrigatoria">>,
                                           <<"API key nao configurada no servidor">>,
                                           <<"API key invalida">>}]_vars

\* with authentication enabled the deletion of an existing job was asked
\* with a key that is not the secret: it was answered 401 and the job is
\* still in the table
C20_Witness ==
    /\ apiConfig.API_ENABLE_AUTH
    /\ response # Null
    /\ response.endpoint = "delete"
    /\ response.key = WrongKey
    /\ response.status_code = 401
    /\ response.job_id \in DOMAIN jobs_storage


----------------------------------------------------------------------------
(* Claims about concurrent jobs, under SpecRace *)

\* the jobs that become completed in a step
Completing(id) ==
    /\ id \in DOMAIN jobs_storage /\ id \in DOMAIN jobs_storage'
    /\ jobs_storage[id].status # "completed"
    /\ jobs_storage'[id].status = "completed"

\* C23: jobs that run at once share the results directory: a job that
\* becomes completed takes as its result the report with the latest ctime
\* the directory then holds, whichever job's consolidation wrote it, so that
\* there is an interleaving in which a job is completed with the report of
\* the other job's consolidation and not with its own.
C23_CompletedTakesLatestReport ==
    [][\A id \in DOMAIN tasks :
          Completing(id) =>
             /\ jobs_storage'[id].result_file \in DOMAIN files
             /\ tasks'[id].read = files[jobs_storage'[id].result_file].ctime
             /\ jobs_storage'[id].data = JsonLoad(files[jobs_storage'[id].result_file].content)
             /\ \A other \in DOMAIN tasks : tasks'[id].read >= tasks[other].wrote]_vars

\* a job is completed with the report that the consolidation of another
\* job wrote after its own consolidation had written one
C23_Witness ==
    \E id \in DOMAIN jobs_storage, other \in DOMAIN tasks :
        /\ other # id
        /\ jobs_storage[id].status = "completed"
        /\ tasks[id].wrote # 0
        /\ tasks[id].read # tasks[id].wrote
        /\ tasks[id].read = tasks[other].wrote
        /\ jobs_storage[id].result_file.stamp # 0
        /\ jobs_storage[id].data # Null


----------------------------------------------------------------------------
(* Claims about one job on its directory, under SpecAlone and SpecEarlier *)

\* the keys of "sites" in the data stored for a job, when the data is a
\* consolidated report
ReportSites(data) ==
    IF data # Null /\ "sites" \in DOMAIN data.d THEN DOMAIN data.d.sites ELSE {}

\* C24: a job started without a site list, alone on a directory that held
\* no raw file, whose scraping wrote a raw file for at least one site, is
\* completed with a consolidated report whose "sites" holds every site the
\* run scraped, not with an empty report.
C24_AllSitesJobKeepsItsSites ==
    \A id \in DOMAIN jobs_storage :
        (/\ jobs_storage[id].status = "completed"
         /\ tasks[id].sites = <<>>
         /\ tasks[id].scraped # {}) =>
            /\ jobs_storage[id].data # Null
            /\ tasks[id].scraped \subseteq ReportSites(jobs_storage[id].data)


\* C25: a completed job that was started with an explicit site list is
\* stored with a report whose "sites" holds no other key than the sites of
\* that list, whatever jobs and command-line runs came before it.
C25_ReportHoldsOnlyRequestedSites ==
    \A id \in DOMAIN jobs_storage :
        (jobs_storage[id].status = "completed" /\ tasks[id].sites # <<>>) =>
            ReportSites(jobs_storage[id].data) \subseteq
                {tasks[id].sites[i] : i \in 1..Len(tasks[id].sites)}


----------------------------------------------------------------------------
(* Claims about the background task, under SpecJobs and SpecApi *)

\* the task of a job ends in a step
TaskEnds(id) ==
    /\ tasks[id].pc \notin {"done", "crashed"}
    /\ tasks'[id].pc \in {"done", "crashed"}

\* C26: the consolidation subprocess of a job is started only after its
\* scraping subprocess exited with code 0; a job becomes completed only
\* after both subprocesses exited with code 0 and a result file was found;
\* and the job becomes failed with a recorded error message when the
\* scraping exits non-zero, the consolidation then never being started,
\* when the consolidation exits non-zero, and when no result file exists.
C26_TaskFollowsReturnCodes ==
    [][\A id \in DOMAIN tasks :
          /\ tasks'[id].pc = "consolidating" => tasks'[id].scraping = 0
          /\ tasks'[id].consolidation # -1 => tasks'[id].scraping = 0
          /\ Completing(id) =>
                /\ tasks'[id].scraping = 0 /\ tasks'[id].consolidation = 0
                /\ jobs_storage'[id].result_file \in DOMAIN files
          /\ (/\ TaskEnds(id)
              /\ \/ tasks'[id].scraping > 0
                 \/ tasks'[id].consolidation > 0
                 \/ tasks'[id].consolidation = 0 /\ DOMAIN files = {}) =>
                /\ id \in DOMAIN jobs_storage'
                /\ jobs_storage'[id].status = "failed"
                /\ jobs_storage'[id].error_message # Null
                /\ jobs_storage'[id].completed_at # Null]_vars


\* C27: every job created by POST /scraper/start eventually is completed
\* or failed, its subprocesses terminating, whatever requests come in
\* between, a DELETE of the job while it is queued or running included; no
\* background task ends with an unhandled error; and the id of a deleted
\* job never comes back into the job table. A task is "done" once it has
\* stored completed or failed for its job.
C27_EveryJobEnds ==
    /\ \A id \in JobIds :
          (id \in DOMAIN tasks) ~> (id \in DOMAIN tasks /\ tasks[id].pc = "done")
    /\ [](\A id \in DOMAIN tasks : tasks[id].pc # "crashed")
    /\ [][\A id \in DOMAIN tasks :
              id \notin DOMAIN jobs_storage => id \notin DOMAIN jobs_storage']_vars


\* C28: in every state each job of the table has completed_at set exactly
\* when it is completed or failed, error_message set exactly when it is
\* failed, result_file and data set exactly when it is completed, and the
\* data of a completed job is a parsed report, never None.
C28_JobRecordIsConsistent ==
    \A id \in DOMAIN jobs_storage :
        /\ (jobs_storage[id].completed_at # Null) <=>
              (jobs_storage[id].status \in {"completed", "failed"})
        /\ (jobs_storage[id].error_message # Null) <=> (jobs_storage[id].status = "failed")
        /\ (jobs_storage[id].result_file # Null) <=> (jobs_storage[id].status = "completed")
        /\ (jobs_storage[id].data # Null) <=> (jobs_storage[id].status = "completed")
        /\ (jobs_storage[id].status = "completed") =>
              /\ jobs_storage[id].data # Null
              /\ {"metadata", "sites"} \subseteq DOMAIN jobs_storage[id].data.d


\* C29: an accepted POST /scraper/start whose site list holds a name
\* outside tripadvisor, booking, google and decolar is answered 400 and
\* changes neither the job table nor the tasks; any other one creates a
\* queued job under a new id with a task for it, and the job's sites are
\* the four site keys when the request had no site list.
C29_StartValidatesSites ==
    [][(/\ response' # response
        /\ response' # Null
        /\ response'.endpoint = "start"
        /\ VerifyApiKey(apiConfig, response'.key).ok) =>
          IF \E i \in 1..Len(response'.body.asked) : response'.body.asked[i] \notin SiteSet
          THEN /\ response'.status_code = 400
               /\ jobs_storage' = jobs_storage
               /\ tasks' = tasks
          ELSE /\ response'.status_code = 200
               /\ response'.job_id \notin DOMAIN jobs_storage \cup DOMAIN tasks
               /\ DOMAIN jobs_storage' = DOMAIN jobs_storage \cup {response'.job_id}
               /\ DOMAIN tasks' = DOMAIN tasks \cup {response'.job_id}
               /\ jobs_storage'[response'.job_id].status = "queued"
               /\ tasks'[response'.job_id].pc = "queued"
               /\ tasks'[response'.job_id].sites = response'.body.asked
               /\ jobs_storage'[response'.job_id].sites =
                     (IF response'.body.asked = <<>> THEN Sites ELSE response'.body.asked)]_vars

\* a start request that named google and a site that is not supported was
\* answered 400 after a job had been created for a request with no site
\* list, and the table holds that job only
C29_Witness ==
    /\ response # Null
    /\ response.endpoint = "start"
    /\ response.status_code = 400
    /\ response.body.asked = <<"google", "expedia">>
    /\ DOMAIN jobs_storage = {1}
    /\ jobs_storage[1].sites = Sites
    /\ DOMAIN tasks = {1}


----------------------------------------------------------------------------
(* Claims about load_site_data, under SpecLoad *)

\* the files {site}_dados_* of the directory
RawFilesOf(site) == {n \in DOMAIN files : n.prefix = site /\ n.mid = "dados"}

\* C21: load_site_data(site) returns None when no file of the site is in
\* the directory; otherwise it looks at the file of the site with the latest
\* ctime alone: it returns its parsed content, or None when it does not
\* parse, whatever older files of the site hold.
C21_LoadsLatestFileOnly ==
    [][(mCall' # mCall /\ mCall'.fn = "load_site_data") =>
          IF RawFilesOf(mCall'.site) = {} THEN mCall'.ret = Null
          ELSE \E n \in RawFilesOf(mCall'.site) :
                  /\ \A m \in RawFilesOf(mCall'.site) : files[m].ctime <= files[n].ctime
                  /\ files[n].content.kind = "json" => mCall'.ret = Dict(files[n].content.d)
                  /\ files[n].content.kind # "json" => mCall'.ret = Null]_vars

\* the site has a file that parses and a later one that does not, and the
\* call returned None
C21_Witness ==
    /\ mCall # Null
    /\ mCall.fn = "load_site_data"
    /\ mCall.ret = Null
    /\ \E n, m \in RawFilesOf(mCall.site) :
          /\ files[n].ctime < files[m].ctime
          /\ files[n].content.kind = "json"
          /\ files[m].content.kind # "json"
          /\ \A k \in RawFilesOf(mCall.site) : files[k].ctime <= files[m].ctime


----------------------------------------------------------------------------
(* Claims about _get_hotels_config_for_site, under SpecConfig *)

\* the keys of the call that are {SITE}_{HOTEL_KEY} keys of its site, not
\* _NAME or _ID keys and not on the deny-list
EligibleKeys ==
    {key \in {mCall.keys[i] : i \in 1..Len(mCall.keys)} :
        /\ StartsWith(key, SitePrefix(mCall.site))
        /\ ~EndsWith(key, UnderscoreId) /\ ~EndsWith(key, UnderscoreName)
        /\ key \notin excluded_keys}

\* the part of a key after the site and its underscore
KeyAfterSite(key) == SubSeq(key, Len(SitePrefix(mCall.site)) + 1, Len(key))

\* the name the hotel of an eligible key is to have
ExpectedName(key) ==
    IF key \o UnderscoreName \in {mCall.keys[i] : i \in 1..Len(mCall.keys)}
    THEN ConfigValue(key \o UnderscoreName).c
    ELSE FormatHotelName(KeyAfterSite(key))

\* C22: every eligible key defines one hotel of the mapping, stored under
\* the value of its _NAME key when there is one, else under its formatted
\* hotel key, with the key's value; no other entry is in the mapping, and
\* distinct eligible keys yield distinct entries.
C22_EveryEligibleKeyIsAHotel ==
    (mCall # Null /\ mCall.fn = "_get_hotels_config_for_site") =>
        /\ \A key \in EligibleKeys :
              /\ ExpectedName(key) \in DOMAIN mCall.ret
              /\ mCall.ret[ExpectedName(key)] = ConfigValue(key)
        /\ \A name \in DOMAIN mCall.ret : \E key \in EligibleKeys : name = ExpectedName(key)
        /\ Cardinality(DOMAIN mCall.ret) = Cardinality(EligibleKeys)

----------------------------------------------------------------------------
(* Claims about _normalize_hotel_data, under SpecNorm *)

Called == nPc # "call"
Returned == nPc = "returned"

StringFieldSource(site) ==
    [hotel_name |-> "hotel_name",
     url |-> IF site = "booking" THEN "url"
             ELSE IF site = "google" THEN "google_url" ELSE "hotel_url",
     source |-> "source",
     extraction_timestamp |-> IF site = "booking" THEN "timestamp" ELSE "extraction_timestamp"]

\* C6: for each of the four site keys and every raw record, the empty one
\* included, _normalize_hotel_data returns a record whose key set is the
\* fixed one and whose site is the site key passed in; a field whose source
\* key is absent takes its default ('' , 0.0 for rating, 0 for review_count).
C6_FixedShapeForEveryRecord ==
    Called =>
        /\ Returned
        /\ DOMAIN nOut = NormalizedKeys
        /\ nOut.site = nSite
        /\ \A f \in DOMAIN StringFieldSource(nSite) :
              StringFieldSource(nSite)[f] \notin DOMAIN nRaw => nOut[f] = EmptyStr
        /\ "rating" \notin DOMAIN nRaw => nOut.rating = FloatV(0)
        /\ ReviewCountKey(nSite) \notin DOMAIN nRaw => nOut.review_count = IntV(0)

\* C7: whatever the raw record carries in its review-count field, the
\* review_count of the normalized record is a non-negative integer and its
\* rating is a float.
C7_ReviewCountNonNegativeInt ==
    Returned =>
        /\ nOut.review_count.t = "int"
        /\ nOut.review_count.n >= 0
        /\ nOut.rating.t = "float"

\* C8 as stated: max_rating does not depend on the raw record for
\* tripadvisor, google (5.0) and decolar (10.0); only booking reads it, with
\* 10.0 as the default.
C8_OnlyBookingReadsMaxRating ==
    Returned =>
        /\ nSite \in {"tripadvisor", "google"} => nOut.max_rating = FloatV(500)
        /\ nSite = "decolar" => nOut.max_rating = FloatV(1000)
        /\ nSite = "booking" /\ "max_rating" \notin DOMAIN nRaw => nOut.max_rating = FloatV(1000)
        /\ nSite = "booking" /\ "max_rating" \in DOMAIN nRaw /\ nRaw["max_rating"].t = "float"
              => nOut.max_rating = nRaw["max_rating"]

\* C8 amended: max_rating is 5.0 for tripadvisor and 10.0 for decolar whatever
\* the raw record holds; for booking and for google it is float() of the raw
\* record's max_rating, with default 10.0 for booking and 5.0 for google.
C8_BookingAndGoogleReadMaxRating ==
    Returned =>
        /\ nOut.max_rating.t = "float"
        /\ nSite = "tripadvisor" => nOut.max_rating = FloatV(500)
        /\ nSite = "decolar" => nOut.max_rating = FloatV(1000)
        /\ nSite \in {"booking", "google"} =>
              /\ "max_rating" \notin DOMAIN nRaw =>
                    nOut.max_rating = (IF nSite = "booking" THEN FloatV(1000) ELSE FloatV(500))
              /\ "max_rating" \in DOMAIN nRaw /\ nRaw["max_rating"].t = "float" =>
                    nOut.max_rating = nRaw["max_rating"]
              /\ "max_rating" \in DOMAIN nRaw /\ nRaw["max_rating"].t = "int" =>
                    nOut.max_rating = FloatV(100 * nRaw["max_rating"].n)
              /\ "max_rating" \in DOMAIN nRaw /\ nRaw["max_rating"] = Str(<<"4", ".", "5">>) =>
                    nOut.max_rating = FloatV(450)

\* a google record whose max_rating 4.5 reaches the normalized record
C8_Witness ==
    /\ Returned
    /\ nSite = "google"
    /\ "max_rating" \in DOMAIN nRaw
    /\ nRaw["max_rating"] = FloatV(450)
    /\ nOut.max_rating = FloatV(450)

\* C9: hotel_id is the raw hotel_id verbatim for tripadvisor, google and
\* decolar; for booking it is the hotel name lower-cased, spaces replaced by
\* underscores, a leading "hotel_" removed (a later one kept), c-cedilla
\* replaced by c and a-tilde by a.
C9_HotelIdLeadingTokenOnly ==
    Returned =>
        /\ nSite # "booking" => nOut.hotel_id = Get(nRaw, "hotel_id", EmptyStr)
        /\ nSite = "booking" =>
              nOut.hotel_id = Str(GenerateHotelIdChars_Leading(Get(nRaw, "hotel_name", EmptyStr).c))

====
